---- MODULE Spec2Model ----
(***************************************************************************)
(* A model of the Rono toolchain core: the semantic analyzer               *)
(* (src/src/semantic.rs), the tree-walking interpreter                     *)
(* (src/src/interpreter.rs) and the constant folder of the IR generator    *)
(* (src/src/ir_gen.rs).  Programs are abstract syntax trees (src/src/ast.rs)*)
(* built as records; strings that the code inspects character by character *)
(* are sequences of one-character strings.                                 *)
(***************************************************************************)
EXTENDS Integers, Sequences, FiniteSets, TLC

VARIABLES
    pc,        \* position of Interpreter::execute: "new", "main", "done"
    globals,   \* Interpreter.globals
    locals,    \* Interpreter.locals, innermost scope last
    functions, \* Interpreter.functions
    struct_methods, \* Interpreter.struct_methods
    modules,   \* Interpreter.modules
    hash_seed, \* what decides the iteration order of the process's HashMaps
    out,       \* the lines printed by con.out so far
    result,    \* what execute returned: NoResult, Ok or Err
    last,      \* the statement of main that the latest step executed, if it was one
    pre,       \* the interpreter before that statement
    steps,     \* number of statements of main executed
    sem,       \* the SemanticAnalyzer: symbol table, in_loop, return-type cursor
    sem_prog,  \* the Program handed to the analyzer
    sem_res,   \* what the latest analyzer call returned
    sem_op,    \* which analyzer entry point ran last
    sem_calls, \* number of analyzer calls made
    ar_in,     \* operands and operator handed to the arithmetic routines
    ar_out,    \* their results
    call_in,   \* the arguments handed to a routine that is run on its own
    call_out   \* what that routine returned

interp_vars == <<pc, globals, locals, functions, struct_methods, modules, hash_seed,
                 out, result, last, pre, steps>>
sem_vars == <<sem, sem_prog, sem_res, sem_op, sem_calls>>
ar_vars == <<ar_in, ar_out>>
call_vars == <<call_in, call_out>>
vars == <<pc, globals, locals, functions, struct_methods, modules, hash_seed,
          out, result, last, pre, steps,
          sem, sem_prog, sem_res, sem_op, sem_calls, ar_in, ar_out, call_in, call_out>>

(***************************************************************************)
(* Bounds of the model.                                                    *)
(***************************************************************************)
MaxSteps == 4
MaxLen == 3
MaxSemCalls == 2

(***************************************************************************)
(* Generic helpers.                                                        *)
(***************************************************************************)
EmptyMap == [n \in {} |-> n]

MapInsert(m, k, v) == [n \in DOMAIN m \cup {k} |-> IF n = k THEN v ELSE m[n]]

SetMax(S) == CHOOSE x \in S : \A y \in S : y <= x

SetMin(S) == CHOOSE x \in S : \A y \in S : x <= y

None == [some |-> FALSE]

Some(x) == [some |-> TRUE, v |-> x]

(***************************************************************************)
(* types.rs: ChifType and ChifValue.                                       *)
(***************************************************************************)
TInt == [k |-> "Int"]
TFloat == [k |-> "Float"]
TStr == [k |-> "Str"]
TBool == [k |-> "Bool"]
TNil == [k |-> "Nil"]
TArray(elem, dims) == [k |-> "Array", elem |-> elem, dims |-> dims]
TList(elem, dims) == [k |-> "List", elem |-> elem, dims |-> dims]
TMap(key, val) == [k |-> "Map", key |-> key, val |-> val]
TStruct(name) == [k |-> "Struct", name |-> name]
TPointer(target) == [k |-> "Pointer", target |-> target]

IntV(n) == [t |-> "Int", v |-> n]
\* a Float is kept as the exact fraction num/den (den > 0), or den = 0 for
\* the IEEE infinities (num = 1, -1) and NaN (num = 0)
FloatV(num, den) == [t |-> "Float", num |-> num, den |-> den]
StrV(s) == [t |-> "Str", v |-> s]
BoolV(b) == [t |-> "Bool", v |-> b]
NilV == [t |-> "Nil"]
ArrayV(s) == [t |-> "Array", v |-> s]
ListV(s) == [t |-> "List", v |-> s]
MapV(m) == [t |-> "Map", v |-> m]
StructV(name, fields) == [t |-> "Struct", name |-> name, fields |-> fields]
PointerV(v) == [t |-> "Pointer", v |-> v]
ReferenceV(name) == [t |-> "Reference", name |-> name]

(***************************************************************************)
(* ast.rs: expressions, statements, functions.                             *)
(***************************************************************************)
Lit(v) == [e |-> "Literal", value |-> v]
Id(name) == [e |-> "Identifier", name |-> name]
Bin(op, l, r) == [e |-> "Binary", operator |-> op, left |-> l, right |-> r]
Call(name, args) == [e |-> "Call", name |-> name, args |-> args]
MCall(obj, method, args) == [e |-> "MethodCall", object |-> obj, method |-> method, args |-> args]
Field(obj, f) == [e |-> "FieldAccess", object |-> obj, field |-> f]
ArrLit(elems) == [e |-> "ArrayLiteral", elements |-> elems]
StructLit(name, fields) == [e |-> "StructLiteral", struct_name |-> name, fields |-> fields]
Ref(x) == [e |-> "Reference", expr |-> x]
Deref(x) == [e |-> "Dereference", expr |-> x]

VarDecl(name, ty, value, mut) ==
    [s |-> "VarDecl", name |-> name, var_type |-> ty, value |-> value, is_mutable |-> mut]
Assign(target, value) == [s |-> "Assignment", target |-> target, value |-> value]
ExprS(x) == [s |-> "Expression", expr |-> x]
IfS(c, th, el) == [s |-> "If", condition |-> c, then_block |-> th, else_block |-> el]
ForS(init, c, upd, body) == [s |-> "For", init |-> init, condition |-> c, update |-> upd, body |-> body]
WhileS(c, body) == [s |-> "While", condition |-> c, body |-> body]
ReturnS(x) == [s |-> "Return", expr |-> x]
BreakS == [s |-> "Break"]
ContinueS == [s |-> "Continue"]

Param(name, ty, isref) == [name |-> name, param_type |-> ty, is_reference |-> isref]

Function(name, params, rt, body, is_main) ==
    [name |-> name, params |-> params, return_type |-> rt, body |-> body, is_main |-> is_main]

(***************************************************************************)
(* error.rs: ChifError, and the Result of a call on the interpreter.  A    *)
(* result carries the interpreter (globals, locals, printed lines and the  *)
(* tables filled by execute) as the call left it.  A Rust panic is the     *)
(* error Panic, which nothing catches.                                     *)
(***************************************************************************)
\* a ChifError: the variant and what it carries (a message, a name, an index,
\* the returned value, the types of a mismatch)
ChifError(variant, info) == [err |-> variant, info |-> info]

Ok(it, v) == [it |-> it, ok |-> TRUE, val |-> v]
Err(it, e) == [it |-> it, ok |-> FALSE, error |-> e]

(***************************************************************************)
(* Arithmetic on the machine types.  The programs of this model keep every *)
(* integer far inside i64, so i64 arithmetic is integer arithmetic; `/` and *)
(* `%` of Rust truncate towards zero.  usize is 64 bits wide.              *)
(***************************************************************************)
Abs(n) == IF n < 0 THEN -n ELSE n

TruncDiv(l, r) ==
    IF (l < 0) = (r < 0) THEN Abs(l) \div Abs(r) ELSE -(Abs(l) \div Abs(r))

TruncRem(l, r) == l - r * TruncDiv(l, r)

RECURSIVE Gcd(_, _)
Gcd(a, b) == IF b = 0 THEN a ELSE Gcd(b, a % b)

\* the Float whose value is num/den, in lowest terms; x/0 is +inf, -inf or NaN
MkFloat(num, den) ==
    IF den = 0
    THEN FloatV(IF num > 0 THEN 1 ELSE IF num < 0 THEN -1 ELSE 0, 0)
    ELSE LET g == Gcd(Abs(num), Abs(den))
             sgn == IF den < 0 THEN -1 ELSE 1
         IN FloatV(sgn * (num \div g), sgn * (den \div g))

IsNaN(f) == f.den = 0 /\ f.num = 0

FloatAdd(l, r) ==
    IF IsNaN(l) \/ IsNaN(r) THEN FloatV(0, 0)
    ELSE IF (l.den = 0 /\ l.num # 0) /\ (r.den = 0 /\ r.num # 0) THEN (IF l.num = r.num THEN l ELSE FloatV(0, 0))
    ELSE IF (l.den = 0 /\ l.num # 0) THEN l
    ELSE IF (r.den = 0 /\ r.num # 0) THEN r
    ELSE MkFloat(l.num * r.den + r.num * l.den, l.den * r.den)

FloatNeg(f) == FloatV(-f.num, f.den)

FloatSub(l, r) == FloatAdd(l, FloatNeg(r))

FloatMul(l, r) ==
    IF IsNaN(l) \/ IsNaN(r) THEN FloatV(0, 0)
    ELSE IF (l.den = 0 /\ l.num # 0) \/ (r.den = 0 /\ r.num # 0)
         THEN (IF l.num = 0 \/ r.num = 0 THEN FloatV(0, 0)
               ELSE FloatV(IF (l.num < 0) = (r.num < 0) THEN 1 ELSE -1, 0))
    ELSE MkFloat(l.num * r.num, l.den * r.den)

FloatDiv(l, r) ==
    IF IsNaN(l) \/ IsNaN(r) THEN FloatV(0, 0)
    ELSE IF (l.den = 0 /\ l.num # 0) THEN (IF (r.den = 0 /\ r.num # 0) THEN FloatV(0, 0)
                           ELSE FloatV(IF (l.num < 0) = (r.num < 0) THEN 1 ELSE -1, 0))
    ELSE IF (r.den = 0 /\ r.num # 0) THEN FloatV(0, 1)
    ELSE IF r.num = 0 THEN MkFloat(l.num, 0)
    ELSE MkFloat(l.num * r.den, l.den * r.num)

FloatLess(l, r) ==
    IF IsNaN(l) \/ IsNaN(r) THEN FALSE
    ELSE IF (l.den = 0 /\ l.num # 0) THEN l.num < 0 /\ ~((r.den = 0 /\ r.num # 0) /\ r.num < 0)
    ELSE IF (r.den = 0 /\ r.num # 0) THEN r.num > 0
    ELSE l.num * r.den < r.num * l.den

\* (l - r).abs() < f64::EPSILON: the fractions of this model have small
\* denominators, so two of them are closer than 2^-52 only when equal
FloatClose(l, r) ==
    LET d == FloatSub(l, r) IN d.den # 0 /\ d.num = 0

(***************************************************************************)
(* Strings are sequences of characters.  Display for ChifValue            *)
(* (types.rs) walks a HashMap for Map and Struct; the walk order depends   *)
(* on the map's hasher, and the model takes it from a seed.                *)
(***************************************************************************)
\* the characters of the model's strings, in the order of their codes
Alphabet == <<" ", "\"", "&", "(", ")", ",", "-", ".", "0", "1", "2", "3", "4", "5", "6", "7",
              "8", "9", ":", "A", "N", "P", "Q", "[", "]", "_", "a", "b", "c", "d", "e",
              "f", "i", "l", "m", "n", "o", "p", "r", "s", "t", "u", "v", "x", "y",
              "{", "}">>

\* identifiers are strings; Spelling gives the characters of those the model
\* writes inside string literals
Spelling(name) ==
    CASE name = "x" -> <<"x">>
      [] name = "y" -> <<"y">>
      [] name = "l" -> <<"l">>
      [] name = "v" -> <<"v">>
      [] name = "p" -> <<"p">>
      [] name = "P" -> <<"P">>
      [] name = "Q" -> <<"Q">>
      [] name = "len" -> <<"l", "e", "n">>
      [] name = "dx" -> <<"d", "x">>
      [] name = "dy" -> <<"d", "y">>
      [] name = "self" -> <<"s", "e", "l", "f">>
      [] name = "con" -> <<"c", "o", "n">>
      [] name = "out" -> <<"o", "u", "t">>
      [] name = "in" -> <<"i", "n">>
      [] name = "f" -> <<"f">>
      [] name = "foo" -> <<"f", "o", "o">>
      [] name = "lib" -> <<"l", "i", "b">>
      [] name = "bar" -> <<"b", "a", "r">>
      [] name = "f_bar" -> <<"f", "_", "b", "a", "r">>
      [] name = "foo_bar" -> <<"f", "o", "o", "_", "b", "a", "r">>
      [] name = "lib_bar" -> <<"l", "i", "b", "_", "b", "a", "r">>
      [] name = "x_bar" -> <<"x", "_", "b", "a", "r">>
      [] name = "y_bar" -> <<"y", "_", "b", "a", "r">>
      [] OTHER -> <<"?">>

\* the identifier a run of characters spells ("?" when the model has none)
NameOf(chars) ==
    LET names == {"x", "y", "l", "v", "p", "P", "Q", "len", "dx", "dy", "self", "con",
                  "out", "in", "f", "foo", "lib", "bar", "f_bar", "foo_bar", "lib_bar",
                  "x_bar", "y_bar"}
    IN IF \E n \in names : Spelling(n) = chars
       THEN CHOOSE n \in names : Spelling(n) = chars
       ELSE "?"

RECURSIVE StrLess(_, _)
StrLess(l, r) ==
    IF r = <<>> THEN FALSE
    ELSE IF l = <<>> THEN TRUE
    ELSE IF Head(l) = Head(r) THEN StrLess(Tail(l), Tail(r))
    ELSE (CHOOSE i \in 1..Len(Alphabet) : Alphabet[i] = Head(l))
         < (CHOOSE i \in 1..Len(Alphabet) : Alphabet[i] = Head(r))

\* Display for i64
RECURSIVE IntToStr(_)
IntToStr(n) ==
    IF n < 0 THEN <<"-">> \o IntToStr(-n)
    ELSE IF n < 10
    THEN SubSeq(<<"0", "1", "2", "3", "4", "5", "6", "7", "8", "9">>, n + 1, n + 1)
    ELSE IntToStr(n \div 10) \o IntToStr(n % 10)

\* the decimal digits of rem/den, a fraction in [0, 1) with a finite expansion
RECURSIVE FracDigits(_, _)
FracDigits(rem, den) ==
    IF rem = 0 THEN <<>>
    ELSE IntToStr((rem * 10) \div den) \o FracDigits((rem * 10) % den, den)

FloatToStr(f) ==
    IF f.den = 0
    THEN (IF f.num > 0 THEN <<"i", "n", "f">>
          ELSE IF f.num < 0 THEN <<"-", "i", "n", "f">> ELSE <<"N", "a", "N">>)
    ELSE LET a == Abs(f.num)
             whole == IntToStr(a \div f.den)
             frac == FracDigits(a % f.den, f.den)
         IN (IF f.num < 0 THEN <<"-">> ELSE <<>>) \o whole \o
            (IF frac = <<>> THEN <<>> ELSE <<".">> \o frac)

RECURSIVE JoinWith(_, _)
JoinWith(parts, sep) ==
    IF parts = <<>> THEN <<>>
    ELSE IF Len(parts) = 1 THEN parts[1]
    ELSE parts[1] \o sep \o JoinWith(Tail(parts), sep)

\* the names of a HashMap in the order its iterator yields them
RECURSIVE HashOrder(_, _)
HashOrder(keys, seed) ==
    IF keys = {} THEN <<>>
    ELSE LET k == IF seed = 0
                  THEN CHOOSE x \in keys : \A y \in keys : x = y \/ StrLess(x, y)
                  ELSE CHOOSE x \in keys : \A y \in keys : x = y \/ StrLess(y, x)
         IN <<k>> \o HashOrder(keys \ {k}, seed)

SpellingOrder(names, seed) ==
    LET ks == HashOrder({Spelling(n) : n \in names}, seed)
    IN [i \in 1..Len(ks) |-> NameOf(ks[i])]

RECURSIVE to_string(_, _)
to_string(value, seed) ==
    CASE value.t = "Int" -> IntToStr(value.v)
      [] value.t = "Float" -> FloatToStr(value)
      [] value.t = "Str" -> value.v
      [] value.t = "Bool" -> IF value.v THEN <<"t", "r", "u", "e">>
                             ELSE <<"f", "a", "l", "s", "e">>
      [] value.t = "Nil" -> <<"n", "i", "l">>
      [] value.t \in {"Array", "List"} ->
            <<"[">> \o JoinWith([i \in 1..Len(value.v) |-> to_string(value.v[i], seed)],
                                <<",", " ">>) \o <<"]">>
      [] value.t = "Map" ->
            LET ks == HashOrder(DOMAIN value.v, seed)
            IN <<"{">> \o
               JoinWith([i \in 1..Len(ks) |->
                            <<"\"">> \o ks[i] \o <<"\"", ":", " ">> \o
                            to_string(value.v[ks[i]], seed)], <<",", " ">>) \o <<"}">>
      [] value.t = "Struct" ->
            LET ks == SpellingOrder(DOMAIN value.fields, seed)
            IN Spelling(value.name) \o <<" ", "{", " ">> \o
               JoinWith([i \in 1..Len(ks) |->
                            Spelling(ks[i]) \o <<":", " ">> \o
                            to_string(value.fields[ks[i]], seed)],
                        <<",", " ">>) \o <<" ", "}">>
      [] value.t = "Pointer" -> <<"&">> \o to_string(value.v, seed)
      [] value.t = "Reference" -> <<"&">> \o Spelling(value.name)

(***************************************************************************)
(* interpreter.rs: the helpers that read and write the interpreter.        *)
(***************************************************************************)
WithIt(r, it) == [r EXCEPT !.it = it]

apply_binary_op(op, left, right) ==
    CASE left.t = "Int" /\ right.t = "Int" ->
            LET l == left.v
                r == right.v
            IN CASE op = "Add" -> Ok(<<>>, IntV(l + r))
                 [] op = "Subtract" -> Ok(<<>>, IntV(l - r))
                 [] op = "Multiply" -> Ok(<<>>, IntV(l * r))
                 [] op = "Divide" ->
                        IF r = 0 THEN Err(<<>>, ChifError("RuntimeError", "Division by zero"))
                        ELSE Ok(<<>>, IntV(TruncDiv(l, r)))
                 [] op = "Modulo" ->
                        IF r = 0
                        THEN Err(<<>>, ChifError("Panic", "attempt to calculate the remainder with a divisor of zero"))
                        ELSE Ok(<<>>, IntV(TruncRem(l, r)))
                 [] op = "Equal" -> Ok(<<>>, BoolV(l = r))
                 [] op = "NotEqual" -> Ok(<<>>, BoolV(l # r))
                 [] op = "Less" -> Ok(<<>>, BoolV(l < r))
                 [] op = "Greater" -> Ok(<<>>, BoolV(l > r))
                 [] op = "LessEqual" -> Ok(<<>>, BoolV(l <= r))
                 [] op = "GreaterEqual" -> Ok(<<>>, BoolV(l >= r))
                 [] OTHER -> Err(<<>>, ChifError("RuntimeError", "Invalid operation for integers"))
      [] left.t = "Float" /\ right.t = "Float" ->
            CASE op = "Add" -> Ok(<<>>, FloatAdd(left, right))
              [] op = "Subtract" -> Ok(<<>>, FloatSub(left, right))
              [] op = "Multiply" -> Ok(<<>>, FloatMul(left, right))
              [] op = "Divide" -> Ok(<<>>, FloatDiv(left, right))
              [] op = "Equal" -> Ok(<<>>, BoolV(FloatClose(left, right)))
              [] op = "NotEqual" ->
                     Ok(<<>>, BoolV(~FloatClose(left, right)
                                    /\ ~IsNaN(FloatSub(left, right))))
              [] op = "Less" -> Ok(<<>>, BoolV(FloatLess(left, right)))
              [] op = "Greater" -> Ok(<<>>, BoolV(FloatLess(right, left)))
              [] op = "LessEqual" ->
                     Ok(<<>>, BoolV(FloatLess(left, right)
                                    \/ (~IsNaN(left) /\ left = right)))
              [] op = "GreaterEqual" ->
                     Ok(<<>>, BoolV(FloatLess(right, left)
                                    \/ (~IsNaN(left) /\ left = right)))
              [] OTHER -> Err(<<>>, ChifError("RuntimeError", "Invalid operation for floats"))
      [] left.t = "Str" /\ right.t = "Str" ->
            LET l == left.v
                r == right.v
            IN CASE op = "Add" -> Ok(<<>>, StrV(l \o r))
                 [] op = "Equal" -> Ok(<<>>, BoolV(l = r))
                 [] op = "NotEqual" -> Ok(<<>>, BoolV(l # r))
                 [] op = "Less" -> Ok(<<>>, BoolV(StrLess(l, r)))
                 [] op = "Greater" -> Ok(<<>>, BoolV(StrLess(r, l)))
                 [] op = "LessEqual" -> Ok(<<>>, BoolV(~StrLess(r, l)))
                 [] op = "GreaterEqual" -> Ok(<<>>, BoolV(~StrLess(l, r)))
                 [] OTHER -> Err(<<>>, ChifError("RuntimeError", "Invalid operation for strings"))
      [] left.t = "Bool" /\ right.t = "Bool" ->
            CASE op = "And" -> Ok(<<>>, BoolV(left.v /\ right.v))
              [] op = "Or" -> Ok(<<>>, BoolV(left.v \/ right.v))
              [] op = "Equal" -> Ok(<<>>, BoolV(left.v = right.v))
              [] op = "NotEqual" -> Ok(<<>>, BoolV(left.v # right.v))
              [] OTHER -> Err(<<>>, ChifError("RuntimeError", "Invalid operation for booleans"))
      [] OTHER -> Err(<<>>, ChifError("RuntimeError", "Type mismatch in binary operation"))

apply_unary_op(op, operand) ==
    CASE op = "Not" /\ operand.t = "Bool" -> Ok(<<>>, BoolV(~operand.v))
      [] op = "Minus" /\ operand.t = "Int" -> Ok(<<>>, IntV(-operand.v))
      [] op = "Minus" /\ operand.t = "Float" -> Ok(<<>>, FloatNeg(operand))
      [] OTHER -> Err(<<>>, ChifError("RuntimeError", "Invalid unary operation"))

get_variable(it, name) ==
    LET hits == {i \in 1..Len(it.locals) : name \in DOMAIN it.locals[i]}
    IN IF hits # {} THEN Ok(it, it.locals[SetMax(hits)][name])
       ELSE IF name \in DOMAIN it.globals THEN Ok(it, it.globals[name])
       ELSE Err(it, ChifError("VariableNotFound", name))

\* always Ok(()): the interpreter after the insertion
set_variable(it, name, value) ==
    IF it.locals # <<>>
    THEN [it EXCEPT !.locals[Len(it.locals)] = MapInsert(@, name, value)]
    ELSE [it EXCEPT !.globals = MapInsert(@, name, value)]

get_index(object, index) ==
    CASE object.t \in {"Array", "List"} /\ index.t = "Int" ->
            \* idx = `i as usize`: a negative i is the huge index 2^64 + i
            IF index.v >= 0 /\ index.v < Len(object.v)
            THEN Ok(<<>>, object.v[index.v + 1])
            ELSE Err(<<>>, ChifError("IndexOutOfBounds",
                                    IF index.v >= 0 THEN index.v ELSE <<"2^64 +", index.v>>))
      [] object.t = "Map" /\ index.t = "Str" ->
            IF index.v \in DOMAIN object.v THEN Ok(<<>>, object.v[index.v])
            ELSE Ok(<<>>, NilV)
      [] OTHER -> Err(<<>>, ChifError("RuntimeError", "Invalid index operation"))

get_field(object, field) ==
    IF object.t = "Struct"
    THEN IF field \in DOMAIN object.fields THEN Ok(<<>>, object.fields[field])
         ELSE Err(<<>>, ChifError("RuntimeError", "Field not found"))
    ELSE Err(<<>>, ChifError("RuntimeError", "Cannot access field on non-struct value"))

\* both are no-ops that return Ok(())
assign_to_index(it, index_access, value) == it

assign_to_field(it, field_access, value) == it

is_truthy(value) ==
    CASE value.t = "Bool" -> value.v
      [] value.t = "Nil" -> FALSE
      [] value.t = "Int" -> value.v # 0
      [] value.t = "Float" -> value.num # 0 \/ value.den = 0
      [] value.t = "Str" -> value.v # <<>>
      [] OTHER -> TRUE

values_equal(left, right) ==
    CASE left.t = "Int" /\ right.t = "Int" -> left.v = right.v
      [] left.t = "Float" /\ right.t = "Float" -> FloatClose(left, right)
      [] left.t = "Str" /\ right.t = "Str" -> left.v = right.v
      [] left.t = "Bool" /\ right.t = "Bool" -> left.v = right.v
      [] left.t = "Nil" /\ right.t = "Nil" -> TRUE
      [] OTHER -> FALSE

(***************************************************************************)
(* Text helpers of interpolate_string and evaluate_interpolation_          *)
(* expression (str::contains, find, split, ends_with, parse::<i64>).       *)
(***************************************************************************)
Contains(str, c) == \E i \in 1..Len(str) : str[i] = c

\* 1-based position of the first c at or after position from, 0 if none
FindFrom(str, c, from) ==
    LET hits == {i \in from..Len(str) : str[i] = c}
    IN IF hits = {} THEN 0 ELSE SetMin(hits)

RECURSIVE Split(_, _)
Split(str, c) ==
    LET i == FindFrom(str, c, 1)
    IN IF i = 0 THEN <<str>>
       ELSE <<SubSeq(str, 1, i - 1)>> \o Split(SubSeq(str, i + 1, Len(str)), c)

\* str.parse::<i64>(): an optional sign and at least one digit
ParseI64(str) ==
    LET body == IF str # <<>> /\ Head(str) \in {"+", "-"} THEN Tail(str) ELSE str
        DigitVal(c) == CHOOSE d \in 0..9 : IntToStr(d) = <<c>>
        value[n \in 0..Len(body)] ==
            IF n = 0 THEN 0 ELSE value[n - 1] * 10 + DigitVal(body[n])
    IN IF body # <<>>
          /\ \A i \in 1..Len(body) :
                body[i] \in {"0", "1", "2", "3", "4", "5", "6", "7", "8", "9"}
       THEN Some(IF Head(str) = "-" THEN -value[Len(body)] ELSE value[Len(body)])
       ELSE None

\* the programs of this model call neither the random and http builtins nor
\* con.in, whose results come from outside the process
IsBuiltinCall(name) ==
    name \in {"randi", "randf", "rands", "http_get", "http_post", "http_put", "http_delete"}

MethodNamed(methods, name) ==
    LET hits == {i \in 1..Len(methods) : methods[i].name = name}
    IN IF hits = {} THEN None ELSE Some(methods[SetMin(hits)])

\* list.push(value), list.insert(idx as usize, value) and
\* list.remove(idx as usize) of call_mutable_method, idx being in range
VecPush(list, value) == Append(list, value)

VecInsertAtEnd(list, idx, value) == Append(list, value)

VecInsert(list, idx, value) ==
    SubSeq(list, 1, idx) \o <<value>> \o SubSeq(list, idx + 1, Len(list))

VecRemove(list, idx) == SubSeq(list, 1, idx) \o SubSeq(list, idx + 2, Len(list))

\* scope.insert(param.name, arg) for the zipped parameters and arguments
RECURSIVE BindParams(_, _, _)
BindParams(params, args, scope) ==
    IF params = <<>> \/ args = <<>> THEN scope
    ELSE BindParams(Tail(params), Tail(args), MapInsert(scope, Head(params).name, Head(args)))

\* parent_scope.insert(name, value) for every entry of the loop scope
MergeScope(parent, loop_scope) ==
    [n \in DOMAIN parent \cup DOMAIN loop_scope |->
        IF n \in DOMAIN loop_scope THEN loop_scope[n] ELSE parent[n]]

(***************************************************************************)
(* interpreter.rs: the evaluator.  Every operator takes the interpreter    *)
(* `it` and returns a result that carries the interpreter it leaves.       *)
(***************************************************************************)
RECURSIVE Dispatch(_, _, _)
RECURSIVE evaluate_all(_, _, _)
RECURSIVE interpolate_from(_, _, _, _)
RECURSIVE for_loop(_, _, _)
RECURSIVE while_loop(_, _)
RECURSIVE switch_cases(_, _, _, _)

\* `self.method(..)`: the calls the methods of Interpreter make on one another
self_evaluate_expression(it, a) == Dispatch(it, "evaluate_expression", <<a>>)
self_execute_statement(it, a) == Dispatch(it, "execute_statement", <<a>>)
self_execute_block(it, a) == Dispatch(it, "execute_block", <<a>>)
self_call_function(it, a, b) == Dispatch(it, "call_function", <<a, b>>)
self_call_function_with_references(it, a, b, c) == Dispatch(it, "call_function_with_references", <<a, b, c>>)
self_call_method(it, a, b, c) == Dispatch(it, "call_method", <<a, b, c>>)
self_call_mutable_method(it, a, b, c) == Dispatch(it, "call_mutable_method", <<a, b, c>>)
self_call_mutable_struct_method(it, a, b, c) == Dispatch(it, "call_mutable_struct_method", <<a, b, c>>)
self_interpolate_string(it, a) == Dispatch(it, "interpolate_string", <<a>>)
self_evaluate_interpolation_expression(it, a) == Dispatch(it, "evaluate_interpolation_expression", <<a>>)

\* the expressions of a list evaluated left to right, stopping at the first error
evaluate_all(it, exprs, acc) ==
    IF exprs = <<>> THEN Ok(it, acc)
    ELSE LET r == self_evaluate_expression(it, Head(exprs))
         IN IF ~r.ok THEN r ELSE evaluate_all(r.it, Tail(exprs), Append(acc, r.val))

evaluate_expression(it, expr) ==
    CASE expr.e = "Literal" ->
            IF expr.value.t = "Str"
            THEN LET r == self_interpolate_string(it, expr.value.v)
                 IN IF r.ok THEN Ok(r.it, StrV(r.val)) ELSE r
            ELSE Ok(it, expr.value)
      [] expr.e = "Identifier" ->
            CASE expr.name = "randi" -> Ok(it, StrV(<<"r", "a", "n", "d", "i">>))
              [] expr.name = "randf" -> Ok(it, StrV(<<"r", "a", "n", "d", "f">>))
              [] expr.name = "rands" -> Ok(it, StrV(<<"r", "a", "n", "d", "s">>))
              [] OTHER -> get_variable(it, expr.name)
      [] expr.e = "Binary" ->
            LET l == self_evaluate_expression(it, expr.left)
            IN IF ~l.ok THEN l
               ELSE LET r == self_evaluate_expression(l.it, expr.right)
                    IN IF ~r.ok THEN r
                       ELSE WithIt(apply_binary_op(expr.operator, l.val, r.val), r.it)
      [] expr.e = "Unary" ->
            LET o == self_evaluate_expression(it, expr.operand)
            IN IF ~o.ok THEN o ELSE WithIt(apply_unary_op(expr.operator, o.val), o.it)
      [] expr.e = "Call" ->
            IF IsBuiltinCall(expr.name)
            THEN Err(it, ChifError("RuntimeError", "builtin outside the model"))
            ELSE LET a == evaluate_all(it, expr.args, <<>>)
                 IN IF ~a.ok THEN a
                    ELSE IF expr.name \in DOMAIN a.it.functions
                    THEN LET func == a.it.functions[expr.name]
                             has_references ==
                                 \E i \in 1..Len(expr.args) : expr.args[i].e = "Reference"
                         IN IF has_references
                            THEN self_call_function_with_references(a.it, func, a.val, expr.args)
                            ELSE self_call_function(a.it, func, a.val)
                    ELSE Err(a.it, ChifError("FunctionNotFound", expr.name))
      [] expr.e = "MethodCall" ->
            LET fallback ==
                    LET o == self_evaluate_expression(it, expr.object)
                    IN IF ~o.ok THEN o ELSE self_call_method(o.it, o.val, expr.method, expr.args)
            IN IF expr.object.e # "Identifier" THEN fallback
               ELSE LET module_name == expr.object.name
                    IN IF module_name \in DOMAIN it.modules
                       THEN IF expr.method \in DOMAIN it.modules[module_name].functions
                            THEN LET a == evaluate_all(it, expr.args, <<>>)
                                 IN IF ~a.ok THEN a
                                    ELSE self_call_function(a.it,
                                             it.modules[module_name].functions[expr.method],
                                             a.val)
                            ELSE Err(it, ChifError("FunctionNotFound", <<module_name, expr.method>>))
                       ELSE IF expr.method \in {"add", "addAt", "del"}
                       THEN self_call_mutable_method(it, module_name, expr.method, expr.args)
                       ELSE LET object == get_variable(it, module_name)
                            IN IF ~object.ok THEN object
                               ELSE IF object.val.t = "Struct"
                                       /\ object.val.name \in DOMAIN it.struct_methods
                                       /\ MethodNamed(it.struct_methods[object.val.name],
                                                      expr.method).some
                               THEN self_call_mutable_struct_method(it, module_name,
                                                               expr.method, expr.args)
                               ELSE fallback
      [] expr.e = "Index" ->
            LET o == self_evaluate_expression(it, expr.object)
                walk[n \in 0..Len(expr.indices)] ==
                    IF n = 0 THEN o
                    ELSE IF ~walk[n - 1].ok THEN walk[n - 1]
                    ELSE LET i == self_evaluate_expression(walk[n - 1].it, expr.indices[n])
                         IN IF ~i.ok THEN i
                            ELSE WithIt(get_index(walk[n - 1].val, i.val), i.it)
            IN walk[Len(expr.indices)]
      [] expr.e = "FieldAccess" ->
            LET o == self_evaluate_expression(it, expr.object)
            IN IF ~o.ok THEN o ELSE WithIt(get_field(o.val, expr.field), o.it)
      [] expr.e = "ArrayLiteral" ->
            LET a == evaluate_all(it, expr.elements, <<>>)
            IN IF ~a.ok THEN a ELSE Ok(a.it, ArrayV(a.val))
      [] expr.e = "MapLiteral" ->
            LET put[n \in 0..Len(expr.pairs)] ==
                    IF n = 0 THEN Ok(it, EmptyMap)
                    ELSE IF ~put[n - 1].ok THEN put[n - 1]
                    ELSE LET k == self_evaluate_expression(put[n - 1].it, expr.pairs[n][1])
                         IN IF ~k.ok THEN k
                            ELSE LET v == self_evaluate_expression(k.it, expr.pairs[n][2])
                                 IN IF ~v.ok THEN v
                                    ELSE IF k.val.t = "Str"
                                    THEN Ok(v.it, MapInsert(put[n - 1].val, k.val.v, v.val))
                                    ELSE Err(v.it, ChifError("RuntimeError", "Map keys must be strings"))
                m == put[Len(expr.pairs)]
            IN IF ~m.ok THEN m ELSE Ok(m.it, MapV(m.val))
      [] expr.e = "StructLiteral" ->
            LET a == evaluate_all(it, [i \in 1..Len(expr.fields) |-> expr.fields[i][2]], <<>>)
                ins[n \in 0..Len(expr.fields)] ==
                    IF n = 0 THEN EmptyMap
                    ELSE MapInsert(ins[n - 1], expr.fields[n][1], a.val[n])
            IN IF ~a.ok THEN a
               ELSE Ok(a.it, StructV(expr.struct_name, ins[Len(expr.fields)]))
      [] expr.e = "Reference" ->
            IF expr.expr.e = "Identifier" THEN Ok(it, ReferenceV(expr.expr.name))
            ELSE LET v == self_evaluate_expression(it, expr.expr)
                 IN IF ~v.ok THEN v ELSE Ok(v.it, PointerV(v.val))
      [] expr.e = "Dereference" ->
            LET v == self_evaluate_expression(it, expr.expr)
            IN IF ~v.ok THEN v
               ELSE CASE v.val.t = "Pointer" -> Ok(v.it, v.val.v)
                      [] v.val.t = "Reference" -> get_variable(v.it, v.val.name)
                      [] OTHER -> Err(v.it, ChifError("RuntimeError", "Cannot dereference non-pointer value"))

call_method(it, object, method_name, args) ==
    CASE object.t = "Array" ->
            IF method_name = "len" THEN Ok(it, IntV(Len(object.v)))
            ELSE Err(it, ChifError("RuntimeError", "Method not supported for arrays (immutable)"))
      [] object.t = "List" ->
            CASE method_name = "len" -> Ok(it, IntV(Len(object.v)))
              [] method_name = "add" ->
                    IF Len(args) # 1 THEN Err(it, ChifError("RuntimeError", "add method expects 1 argument"))
                    ELSE Ok(it, NilV)
              [] method_name = "addAt" ->
                    IF Len(args) # 2 THEN Err(it, ChifError("RuntimeError", "addAt method expects 2 arguments"))
                    ELSE Ok(it, NilV)
              [] OTHER -> Err(it, ChifError("RuntimeError", "Unknown method for list"))
      [] object.t = "Str" ->
            IF method_name = "len" THEN Ok(it, IntV(Len(object.v)))
            ELSE Err(it, ChifError("RuntimeError", "Unknown method for string"))
      [] object.t = "Struct" /\ object.name = "Console" ->
            IF method_name = "out" /\ Len(args) = 1
            THEN LET arg == self_evaluate_expression(it, args[1])
                 IN IF ~arg.ok THEN arg
                    ELSE LET output ==
                                 IF arg.val.t = "Str" THEN self_interpolate_string(arg.it, arg.val.v)
                                 ELSE Ok(arg.it, to_string(arg.val, arg.it.seed))
                         IN IF ~output.ok THEN output
                            ELSE Ok([output.it EXCEPT !.out = Append(@, output.val)], NilV)
            ELSE IF method_name = "in" /\ Len(args) = 1
            THEN Err(it, ChifError("RuntimeError", "con.in outside the model"))
            ELSE Err(it, ChifError("RuntimeError", "Unknown console method"))
      [] object.t = "Struct" /\ object.name # "Console" ->
            IF args = <<>> THEN Err(it, ChifError("Panic", "index out of bounds: args[0]"))
            ELSE IF args[1].e = "MethodCall" /\ args[1].object.e = "Identifier"
            THEN self_call_mutable_struct_method(it, args[1].object.name, method_name, Tail(args))
            ELSE LET m == IF object.name \in DOMAIN it.struct_methods
                          THEN MethodNamed(it.struct_methods[object.name], method_name)
                          ELSE None
                 IN IF m.some
                    THEN LET a == evaluate_all(it, args, <<object>>)
                         IN IF ~a.ok THEN a ELSE self_call_function(a.it, m.v, a.val)
                    ELSE Err(it, ChifError("RuntimeError", "Unknown method for struct"))
      [] OTHER -> Err(it, ChifError("RuntimeError", "Unknown method"))

\* a wrong interpolate_string: its loop starts at the second character
InterpolateFromSecond(it, str) == interpolate_from(it, str, 2, <<>>)

interpolate_string(it, str) == interpolate_from(it, str, 1, <<>>)

\* the `while let Some(ch) = chars.next()` loop, from position pos on
interpolate_from(it, str, pos, acc) ==
    IF pos > Len(str) THEN Ok(it, acc)
    ELSE LET ch == str[pos]
             peek == IF pos < Len(str) THEN str[pos + 1] ELSE ""
         IN IF ch = "{"
            THEN IF peek = "{" THEN interpolate_from(it, str, pos + 2, Append(acc, "{"))
                 ELSE LET close == FindFrom(str, "}", pos + 1)
                          var_name == SubSeq(str, pos + 1, close - 1)
                      IN IF close = 0
                         THEN Err(it, ChifError("RuntimeError", "Unclosed interpolation bracket '{'"))
                         ELSE IF var_name = <<>>
                         THEN interpolate_from(it, str, close + 1, acc \o <<"{", "}">>)
                         ELSE LET v == self_evaluate_interpolation_expression(it, var_name)
                              IN IF v.ok
                                 THEN interpolate_from(v.it, str, close + 1,
                                          acc \o to_string(v.val, v.it.seed))
                                 ELSE IF v.error.err = "Panic" THEN v
                                 ELSE interpolate_from(v.it, str, close + 1,
                                          acc \o <<"{">> \o var_name \o <<"}">>)
            ELSE IF ch = "}" /\ peek = "}"
            THEN interpolate_from(it, str, pos + 2, Append(acc, "}"))
            ELSE interpolate_from(it, str, pos + 1, Append(acc, ch))

evaluate_interpolation_expression(it, expr) ==
    IF Contains(expr, ".") /\ Len(expr) >= 2 /\ SubSeq(expr, Len(expr) - 1, Len(expr)) = <<"(", ")">>
    THEN LET parts == Split(SubSeq(expr, 1, Len(expr) - 2), ".")
         IN IF Len(parts) = 2
            THEN LET obj == get_variable(it, NameOf(parts[1]))
                 IN IF ~obj.ok THEN obj
                    ELSE self_call_method(it, obj.val, NameOf(parts[2]), <<>>)
            ELSE Err(it, ChifError("RuntimeError", "Invalid method call expression"))
    ELSE IF Contains(expr, "[") /\ Contains(expr, "]") /\ Contains(expr, ".")
    THEN LET base_end == FindFrom(expr, "[", 1)
             base == get_variable(it, NameOf(SubSeq(expr, 1, base_end - 1)))
         IN IF ~base.ok THEN base
            ELSE LET \* the `while pos < chars.len()` loop; pos is 1-based here
                     RECURSIVE path(_, _)
                     path(pos, cur) ==
                         IF pos > Len(expr) THEN Ok(it, cur)
                         ELSE IF expr[pos] = "["
                         THEN LET end_idx == FindFrom(expr, "]", pos + 1)
                                  index == ParseI64(SubSeq(expr, pos + 1, end_idx - 1))
                              IN IF end_idx = 0
                                 THEN Err(it, ChifError("RuntimeError", "Unclosed bracket in expression"))
                                 ELSE IF ~index.some
                                 THEN Err(it, ChifError("RuntimeError", "Invalid array index"))
                                 ELSE LET g == get_index(cur, IntV(index.v))
                                      IN IF ~g.ok THEN WithIt(g, it)
                                         ELSE path(end_idx + 1, g.val)
                         ELSE IF expr[pos] = "."
                         THEN LET stops == {i \in pos + 1..Len(expr) : expr[i] \in {".", "["}}
                                  end_field == IF stops = {} THEN Len(expr) + 1
                                               ELSE SetMin(stops)
                                  g == get_field(cur, NameOf(SubSeq(expr, pos + 1, end_field - 1)))
                              IN IF ~g.ok THEN WithIt(g, it) ELSE path(end_field, g.val)
                         ELSE path(pos + 1, cur)
                 IN path(base_end, base.val)
    ELSE IF Contains(expr, ".")
    THEN LET parts == Split(expr, ".")
             obj == get_variable(it, NameOf(parts[1]))
             chain[n \in 1..Len(parts)] ==
                 IF n = 1 THEN obj
                 ELSE IF ~chain[n - 1].ok THEN chain[n - 1]
                 ELSE WithIt(get_field(chain[n - 1].val, NameOf(parts[n])), it)
         IN chain[Len(parts)]
    ELSE IF Contains(expr, "[") /\ Contains(expr, "]")
            /\ FindFrom(expr, "]", FindFrom(expr, "[", 1) + 1) # 0
    THEN LET bracket_pos == FindFrom(expr, "[", 1)
             close_pos == FindFrom(expr, "]", bracket_pos + 1)
             index == ParseI64(SubSeq(expr, bracket_pos + 1, close_pos - 1))
             obj == get_variable(it, NameOf(SubSeq(expr, 1, bracket_pos - 1)))
         IN IF ~index.some THEN Err(it, ChifError("RuntimeError", "Invalid array index"))
            ELSE IF ~obj.ok THEN obj
            ELSE WithIt(get_index(obj.val, IntV(index.v)), it)
    ELSE get_variable(it, NameOf(expr))

call_function(it, func, args) ==
    IF Len(args) # Len(func.params)
    THEN Err(it, ChifError("RuntimeError", "Function expects a different number of arguments"))
    ELSE LET scope == BindParams(func.params, args, EmptyMap)
             r == self_execute_block([it EXCEPT !.locals = Append(@, scope)], func.body)
             popped == [r.it EXCEPT !.locals = IF @ = <<>> THEN @ ELSE SubSeq(@, 1, Len(@) - 1)]
         IN IF r.ok THEN Ok(popped, NilV)
            ELSE IF r.error.err = "Return" THEN Ok(popped, r.error.info)
            ELSE Err(popped, r.error)

execute_block(it, block) ==
    IF block = <<>> THEN Ok(it, NilV)
    ELSE LET r == self_execute_statement(it, Head(block))
         IN IF ~r.ok THEN r ELSE self_execute_block(r.it, Tail(block))

\* the `loop` of Statement::For; idx is loop_scope_index
for_loop(it, f, idx) ==
    LET c == IF f.condition.some THEN self_evaluate_expression(it, f.condition.v)
             ELSE Ok(it, BoolV(TRUE))
        update(j) == IF f.update.some THEN self_execute_statement(j, f.update.v) ELSE Ok(j, NilV)
    IN IF ~c.ok THEN c
       ELSE IF ~is_truthy(c.val) THEN Ok(c.it, NilV)
       ELSE LET b == self_execute_block(c.it, f.body)
            IN IF ~b.ok /\ b.error.err = "Break" THEN Ok(b.it, NilV)
               ELSE IF ~b.ok /\ b.error.err # "Continue" THEN b
               ELSE LET u == update(b.it)
                    IN IF ~u.ok THEN u
                       ELSE IF b.ok /\ ~(idx < Len(u.it.locals)) THEN Ok(u.it, NilV)
                       ELSE for_loop(u.it, f, idx)

\* the `loop` of Statement::While
while_loop(it, w) ==
    LET c == self_evaluate_expression(it, w.condition)
    IN IF ~c.ok THEN c
       ELSE IF ~is_truthy(c.val) THEN Ok(c.it, NilV)
       ELSE LET b == self_execute_block(c.it, w.body)
            IN IF ~b.ok /\ b.error.err = "Break" THEN Ok(b.it, NilV)
               ELSE IF ~b.ok /\ b.error.err # "Continue" THEN b
               ELSE while_loop(b.it, w)

\* the `for case in &switch_stmt.cases` loop and the default case after it
switch_cases(it, switch_value, cases, default_case) ==
    IF cases = <<>>
    THEN IF default_case.some THEN self_execute_block(it, default_case.v) ELSE Ok(it, NilV)
    ELSE LET case_value == self_evaluate_expression(it, Head(cases).value)
         IN IF ~case_value.ok THEN case_value
            ELSE IF values_equal(switch_value, case_value.val)
            THEN self_execute_block(case_value.it, Head(cases).body)
            ELSE switch_cases(case_value.it, switch_value, Tail(cases), default_case)

execute_statement(it, statement) ==
    CASE statement.s = "VarDecl" ->
            IF statement.value.some
            THEN LET val == self_evaluate_expression(it, statement.value.v)
                 IN IF ~val.ok THEN val
                    ELSE Ok(set_variable(val.it, statement.name,
                                IF statement.var_type.k = "List" /\ val.val.t = "Array"
                                THEN ListV(val.val.v) ELSE val.val), NilV)
            ELSE Ok(set_variable(it, statement.name, NilV), NilV)
      [] statement.s = "Assignment" ->
            LET value == self_evaluate_expression(it, statement.value)
            IN IF ~value.ok THEN value
               ELSE CASE statement.target.e = "Identifier" ->
                            Ok(set_variable(value.it, statement.target.name, value.val), NilV)
                      [] statement.target.e = "Index" ->
                            Ok(assign_to_index(value.it, statement.target, value.val), NilV)
                      [] statement.target.e = "FieldAccess" ->
                            Ok(assign_to_field(value.it, statement.target, value.val), NilV)
                      [] OTHER -> Err(value.it, ChifError("RuntimeError", "Invalid assignment target"))
      [] statement.s = "Expression" ->
            LET r == self_evaluate_expression(it, statement.expr)
            IN IF ~r.ok THEN r ELSE Ok(r.it, NilV)
      [] statement.s = "If" ->
            LET condition == self_evaluate_expression(it, statement.condition)
            IN IF ~condition.ok THEN condition
               ELSE IF is_truthy(condition.val)
               THEN self_execute_block(condition.it, statement.then_block)
               ELSE IF statement.else_block.some
               THEN self_execute_block(condition.it, statement.else_block.v)
               ELSE Ok(condition.it, NilV)
      [] statement.s = "For" ->
            LET pushed == [it EXCEPT !.locals = Append(@, EmptyMap)]
                init == IF statement.init.some THEN self_execute_statement(pushed, statement.init.v)
                        ELSE Ok(pushed, NilV)
            IN IF ~init.ok THEN init
               ELSE LET l == for_loop(init.it, statement, Len(init.it.locals) - 1)
                    IN IF ~l.ok THEN l
                       ELSE IF l.it.locals # <<>>
                       THEN LET loop_scope == l.it.locals[Len(l.it.locals)]
                                rest == SubSeq(l.it.locals, 1, Len(l.it.locals) - 1)
                            IN IF rest # <<>>
                               THEN Ok([l.it EXCEPT !.locals =
                                           [rest EXCEPT ![Len(rest)] = MergeScope(@, loop_scope)]],
                                       NilV)
                               ELSE Ok([l.it EXCEPT !.locals = rest], NilV)
                       ELSE Ok([l.it EXCEPT !.locals = <<EmptyMap>>], NilV)
      [] statement.s = "While" -> while_loop(it, statement)
      [] statement.s = "Switch" ->
            LET switch_value == self_evaluate_expression(it, statement.expr)
            IN IF ~switch_value.ok THEN switch_value
               ELSE switch_cases(switch_value.it, switch_value.val, statement.cases,
                                 statement.default_case)
      [] statement.s = "Return" ->
            IF statement.expr.some
            THEN LET value == self_evaluate_expression(it, statement.expr.v)
                 IN IF ~value.ok THEN value ELSE Err(value.it, ChifError("Return", value.val))
            ELSE Err(it, ChifError("Return", NilV))
      [] statement.s = "Break" -> Err(it, ChifError("Break", <<>>))
      [] statement.s = "Continue" -> Err(it, ChifError("Continue", <<>>))

call_function_with_references(it, func, args, arg_exprs) ==
    IF Len(args) # Len(func.params)
    THEN Err(it, ChifError("RuntimeError", "Function expects a different number of arguments"))
    ELSE LET var_refs == {i \in 1..Len(arg_exprs) :
                             arg_exprs[i].e = "Reference" /\ arg_exprs[i].expr.e = "Identifier"}
             scope == BindParams(func.params, args, EmptyMap)
             r == self_execute_block([it EXCEPT !.locals = Append(@, scope)], func.body)
             local_scope == IF r.it.locals = <<>> THEN EmptyMap
                            ELSE r.it.locals[Len(r.it.locals)]
             popped == [r.it EXCEPT !.locals = IF @ = <<>> THEN @ ELSE SubSeq(@, 1, Len(@) - 1)]
             \* set_variable for the updates, in argument order
             apply[n \in 0..Len(arg_exprs)] ==
                 IF n = 0 THEN popped
                 ELSE IF n \in var_refs /\ n <= Len(func.params)
                         /\ func.params[n].name \in DOMAIN local_scope
                 THEN set_variable(apply[n - 1], arg_exprs[n].expr.name,
                                   local_scope[func.params[n].name])
                 ELSE apply[n - 1]
             done == apply[Len(arg_exprs)]
         IN IF r.ok THEN Ok(done, NilV)
            ELSE IF r.error.err = "Return" THEN Ok(done, r.error.info)
            ELSE Err(done, r.error)

call_mutable_struct_method(it, var_name, method_name, args) ==
    LET object == get_variable(it, var_name)
        m == IF object.ok /\ object.val.t = "Struct"
                /\ object.val.name \in DOMAIN it.struct_methods
             THEN MethodNamed(it.struct_methods[object.val.name], method_name)
             ELSE None
    IN IF ~object.ok THEN object
       ELSE IF ~m.some THEN Err(it, ChifError("RuntimeError", "Method not found for struct"))
       ELSE LET d == IF method_name = "shift" /\ Len(args) >= 2
                     THEN evaluate_all(it, SubSeq(args, 1, 2), <<>>)
                     ELSE Ok(it, <<IntV(0), IntV(0)>>)
            IN IF ~d.ok THEN d
               ELSE LET both == d.val[1].t = "Int" /\ d.val[2].t = "Int"
                        dx_val == IF both THEN d.val[1].v ELSE 0
                        dy_val == IF both THEN d.val[2].v ELSE 0
                        method_args == evaluate_all(d.it, args, <<object.val>>)
                    IN IF ~method_args.ok THEN method_args
                       ELSE LET r == self_call_function(method_args.it, m.v, method_args.val)
                                fields == object.val.fields
                                with_x == IF "x" \in DOMAIN fields /\ fields["x"].t = "Int"
                                          THEN MapInsert(fields, "x", IntV(fields["x"].v + dx_val))
                                          ELSE fields
                                with_y == IF "y" \in DOMAIN with_x /\ with_x["y"].t = "Int"
                                          THEN MapInsert(with_x, "y", IntV(with_x["y"].v + dy_val))
                                          ELSE with_x
                            IN IF ~r.ok THEN r
                               ELSE IF method_name = "shift"
                               THEN Ok(set_variable(r.it, var_name,
                                                    StructV(object.val.name, with_y)), r.val)
                               ELSE r

call_mutable_method(it, var_name, method_name, args) ==
    LET object == get_variable(it, var_name)
    IN IF ~object.ok THEN object
       ELSE IF object.val.t # "List"
       THEN Err(it, ChifError("RuntimeError", "Method not supported for this type"))
       ELSE LET list == object.val.v
            IN CASE method_name = "add" ->
                       IF Len(args) # 1
                       THEN Err(it, ChifError("RuntimeError", "add method expects 1 argument"))
                       ELSE LET value == self_evaluate_expression(it, args[1])
                            IN IF ~value.ok THEN value
                               ELSE Ok(set_variable(value.it, var_name,
                                                    ListV(VecPush(list, value.val))), NilV)
                 [] method_name = "addAt" ->
                       IF Len(args) # 2
                       THEN Err(it, ChifError("RuntimeError", "addAt method expects 2 arguments"))
                       ELSE LET a == evaluate_all(it, args, <<>>)
                            IN IF ~a.ok THEN a
                               ELSE IF a.val[2].t # "Int"
                               THEN Err(a.it, ChifError("RuntimeError", "addAt index must be an integer"))
                               ELSE LET idx == a.val[2].v
                                    IN IF idx >= 0 /\ idx <= Len(list)
                                       THEN Ok(set_variable(a.it, var_name,
                                                   ListV(VecInsert(list, idx, a.val[1]))),
                                               NilV)
                                       ELSE Err(a.it, ChifError("RuntimeError", "Index out of bounds for list"))
                 [] method_name = "del" ->
                       IF Len(args) # 1
                       THEN Err(it, ChifError("RuntimeError", "del method expects 1 argument"))
                       ELSE LET index == self_evaluate_expression(it, args[1])
                            IN IF ~index.ok THEN index
                               ELSE IF index.val.t # "Int"
                               THEN Err(index.it, ChifError("RuntimeError", "del index must be an integer"))
                               ELSE LET idx == index.val.v
                                    IN IF idx >= 0 /\ idx < Len(list)
                                       THEN Ok(set_variable(index.it, var_name,
                                                   ListV(VecRemove(list, idx))),
                                               NilV)
                                       ELSE Err(index.it, ChifError("RuntimeError", "Index out of bounds for list"))
                 [] OTHER -> Err(it, ChifError("RuntimeError", "Unknown mutable method for list"))

\* the method of Interpreter that a `self.method(..)` call names
Dispatch(it, method, args) ==
    CASE method = "evaluate_expression" -> evaluate_expression(it, args[1])
      [] method = "execute_statement" -> execute_statement(it, args[1])
      [] method = "execute_block" -> execute_block(it, args[1])
      [] method = "call_function" -> call_function(it, args[1], args[2])
      [] method = "call_function_with_references" -> call_function_with_references(it, args[1], args[2], args[3])
      [] method = "call_method" -> call_method(it, args[1], args[2], args[3])
      [] method = "call_mutable_method" -> call_mutable_method(it, args[1], args[2], args[3])
      [] method = "call_mutable_struct_method" -> call_mutable_struct_method(it, args[1], args[2], args[3])
      [] method = "interpolate_string" -> interpolate_string(it, args[1])
      [] method = "evaluate_interpolation_expression" -> evaluate_interpolation_expression(it, args[1])

(***************************************************************************)
(* The program the interpreter runs.  Its items are fixed except for the   *)
(* body of main, which the steps choose one statement at a time from       *)
(* MainStatements (execute_block runs them in that order).                 *)
(***************************************************************************)
FunctionItem(f) == [item |-> "Function", func |-> f]
StructImplItem(name, methods) == [item |-> "StructImpl", struct_name |-> name, methods |-> methods]

\* fn (self, dx: int, dy: int) { self.x = self.x + dx; self.y = self.y + dy; }
ShiftParams == <<Param("self", TStruct("P"), FALSE), Param("dx", TInt, FALSE),
                 Param("dy", TInt, FALSE)>>

ShiftBody ==
    <<Assign(Field(Id("self"), "x"), Bin("Add", Field(Id("self"), "x"), Id("dx"))),
      Assign(Field(Id("self"), "y"), Bin("Add", Field(Id("self"), "y"), Id("dy")))>>

\* the two methods of P differ in their names only
MethodNames == {"shift", "move"}

PMethods ==
    <<Function("shift", ShiftParams, None, ShiftBody, FALSE),
      Function("move", ShiftParams, None, ShiftBody, FALSE)>>

\* fn inc(x: pointer[int]) { *x = *x + 1; }
IncFunction ==
    Function("inc", <<Param("x", TPointer(TInt), FALSE)>>, None,
             <<Assign(Deref(Id("x")), Bin("Add", Deref(Id("x")), Lit(IntV(1))))>>, FALSE)

MainFunction == Function("main", <<>>, None, <<>>, TRUE)

ProgramItems ==
    <<StructImplItem("P", PMethods), FunctionItem(IncFunction), FunctionItem(MainFunction)>>

ConOut(x) == ExprS(MCall(Id("con"), "out", <<x>>))

ListDecls ==
    {VarDecl("l", TList(TInt, <<>>), Some(ArrLit(elems)), TRUE) :
        elems \in {<<>>, <<Lit(IntV(1))>>, <<Lit(IntV(1)), Lit(IntV(2))>>}}

ListCalls ==
    {ExprS(MCall(Id("l"), "add", <<Lit(IntV(7))>>))}
    \cup {ExprS(MCall(Id("l"), "addAt", <<Lit(IntV(8)), Lit(IntV(i))>>)) : i \in -1..MaxLen}
    \cup {ExprS(MCall(Id("l"), "del", <<Lit(IntV(i))>>)) : i \in -1..MaxLen}

ListReads == {ConOut(Id("l")), ConOut(MCall(Id("l"), "len", <<>>))}

PointDecl ==
    VarDecl("p", TStruct("P"),
            Some(StructLit("P", <<<<"x", Lit(IntV(1))>>, <<"y", Lit(IntV(2))>>>>)), TRUE)

PointCall(m) == ExprS(MCall(Id("p"), m, <<Lit(IntV(3)), Lit(IntV(4))>>))

\* var v: int = 10;
CounterDecl == VarDecl("v", TInt, Some(Lit(IntV(10))), TRUE)

IncCall == ExprS(Call("inc", <<Ref(Id("v"))>>))

\* if (true) { var x: int = 1; }
IfDeclaresX ==
    IfS(Lit(BoolV(TRUE)), <<VarDecl("x", TInt, Some(Lit(IntV(1))), FALSE)>>, None)

MainStatements ==
    ListDecls \cup ListCalls \cup ListReads
    \cup {PointDecl, ConOut(Field(Id("p"), "x"))} \cup {PointCall(m) : m \in MethodNames}
    \cup {CounterDecl, IncCall, ConOut(Id("v"))}
    \cup {IfDeclaresX, ConOut(Id("x"))}

(***************************************************************************)
(* The interpreter as a state machine: Interpreter::new, then execute up   *)
(* to the call of main, then one statement of main per step.               *)
(***************************************************************************)
Interp ==
    [globals |-> globals, locals |-> locals, functions |-> functions,
     struct_methods |-> struct_methods, modules |-> modules, seed |-> hash_seed,
     out |-> out]

NoResult == [returned |-> FALSE]
Returned(r) == [returned |-> TRUE, ok |-> r.ok, error |-> IF r.ok THEN NilV ELSE r.error]

\* Interpreter::new
InterpNew ==
    /\ pc = "new"
    /\ globals = [con |-> StructV("Console", [out |-> StrV(<<"c", "o", "n", "s", "o", "l", "e", "_", "o", "u", "t">>),
                                              in |-> StrV(<<"c", "o", "n", "s", "o", "l", "e", "_", "i", "n">>)])]
    /\ locals = <<>>
    /\ functions = EmptyMap
    /\ struct_methods = EmptyMap
    /\ modules = EmptyMap
    /\ hash_seed \in {0, 1}
    /\ out = <<>>
    /\ result = NoResult
    /\ last = None
    /\ pre = None
    /\ steps = 0

\* `import "path"`, with or without `as alias`
ImportItem(path, alias) == [item |-> "Import", import |-> [path |-> path, alias |-> alias]]

\* `chif bar(n: int) int { con.out(n); ret n + 1; }`
FooItems ==
    <<FunctionItem(Function("bar", <<Param("n", TInt, FALSE)>>, Some(TInt),
          <<ConOut(Id("n")), ReturnS(Some(Bin("Add", Id("n"), Lit(IntV(1)))))>>, FALSE))>>

\* `chif bar(n: int) int { ret n * 2; }`
LibItems ==
    <<FunctionItem(Function("bar", <<Param("n", TInt, FALSE)>>, Some(TInt),
          <<ReturnS(Some(Bin("Multiply", Id("n"), Lit(IntV(2)))))>>, FALSE))>>

\* x.rono: `import "y"; chif bar(n: int) int { ret n * 2; }`
XItems == <<ImportItem(<<"y">>, None)>> \o LibItems

\* y.rono: `import "x"; chif bar(n: int) int { ret n * 2; }`
YItems == <<ImportItem(<<"x">>, None)>> \o LibItems

\* the files there are to import, each with the program its text parses to
Files ==
    [file_path \in {<<"f", "o", "o", ".", "r", "o", "n", "o">>,
                    <<"l", "i", "b", ".", "r", "o", "n", "o">>,
                    <<"x", ".", "r", "o", "n", "o">>,
                    <<"y", ".", "r", "o", "n", "o">>} |->
        CASE file_path[1] = "f" -> FooItems
          [] file_path[1] = "l" -> LibItems
          [] file_path[1] = "x" -> XItems
          [] OTHER -> YItems]

RonoExtension == <<".", "r", "o", "n", "o">>

\* str::ends_with
EndsWith(str, suffix) ==
    Len(str) >= Len(suffix) /\ SubSeq(str, Len(str) - Len(suffix) + 1, Len(str)) = suffix

\* the path with ".rono" added if it is not there
FilePath(path) == IF EndsWith(path, RonoExtension) THEN path ELSE path \o RonoExtension

\* Path::file_stem: the file name up to its last dot (the whole name if the
\* only dot is the first character or there is none)
FileStem(path) ==
    LET dots == {i \in 2..Len(path) : path[i] = "."}
    IN IF dots = {} THEN path ELSE SubSeq(path, 1, SetMax(dots) - 1)

\* the name a module is stored under: the alias, or the file name without extension
ModuleName(import) ==
    IF import.alias.some THEN import.alias.v ELSE NameOf(FileStem(import.path))

\* Interpreter::process_import after the file is read and parsed: the
\* `for item in &imported_program.items` loop, which has no arm for an
\* import item, and the insertion of the module
import_items(it, import, items) ==
    LET funcs == {i \in 1..Len(items) : items[i].item = "Function"}
        impls == {i \in 1..Len(items) : items[i].item = "StructImpl"}
        names == {items[i].func.name : i \in funcs}
        \* a later function of the same name replaces an earlier one
        module_functions ==
            [n \in names |->
                items[SetMax({i \in funcs : items[i].func.name = n})].func]
        add_methods[n \in 0..Len(items)] ==
            IF n = 0 THEN it.struct_methods
            ELSE IF n \notin impls THEN add_methods[n - 1]
            ELSE MapInsert(add_methods[n - 1], items[n].struct_name,
                     (IF items[n].struct_name \in DOMAIN add_methods[n - 1]
                      THEN add_methods[n - 1][items[n].struct_name]
                      ELSE <<>>) \o items[n].methods)
    IN Ok([it EXCEPT
               !.functions = [n \in DOMAIN @ \cup names |->
                                 IF n \in names THEN module_functions[n] ELSE @[n]],
               !.struct_methods = add_methods[Len(items)],
               !.modules = MapInsert(@, ModuleName(import),
                                     [functions |-> module_functions])],
          NilV)

\* the depth of nested process_import calls the stack holds
StackLimit == 3

\* a process_import that resolves the imports of the imported module before
\* it inserts the module, with no record of the files it is already in
RECURSIVE FollowImports(_, _, _)
FollowImports(it, import, depth) ==
    LET file_path == FilePath(import.path)
        items == Files[file_path]
        nested[n \in 0..Len(items)] ==
            IF n = 0 THEN Ok(it, NilV)
            ELSE IF ~nested[n - 1].ok THEN nested[n - 1]
            ELSE IF items[n].item # "Import" THEN nested[n - 1]
            ELSE FollowImports(nested[n - 1].it, items[n].import, depth + 1)
    IN IF file_path \notin DOMAIN Files
       THEN Err(it, ChifError("RuntimeError", "Cannot read file"))
       ELSE IF depth >= StackLimit
       THEN Err(it, ChifError("Panic", "stack overflow"))
       ELSE IF ~nested[Len(items)].ok THEN nested[Len(items)]
       ELSE import_items(nested[Len(items)].it, import, items)

ProcessImportFollowingImports(it, import) == FollowImports(it, import, 0)

\* Interpreter::process_import
process_import(it, import) ==
    LET file_path == FilePath(import.path)
    IN IF file_path \notin DOMAIN Files
       THEN Err(it, ChifError("RuntimeError", "Cannot read file"))
       ELSE import_items(it, import, Files[file_path])

\* the first pass of execute over the items
RECURSIVE collect_items(_, _)
collect_items(it, items) ==
    IF items = <<>> THEN Ok(it, NilV)
    ELSE LET item == Head(items)
         IN CASE item.item = "Import" ->
                     LET r == process_import(it, item.import)
                     IN IF ~r.ok THEN r ELSE collect_items(r.it, Tail(items))
              [] item.item = "Function" ->
                     collect_items([it EXCEPT !.functions =
                                        MapInsert(@, item.func.name, item.func)], Tail(items))
              [] item.item = "StructImpl" ->
                     collect_items([it EXCEPT !.struct_methods =
                         MapInsert(@, item.struct_name,
                             (IF item.struct_name \in DOMAIN @ THEN @[item.struct_name]
                              ELSE <<>>) \o item.methods)], Tail(items))
              [] OTHER -> collect_items(it, Tail(items))

\* Interpreter::execute
execute(it, items) ==
    LET c == collect_items(it, items)
    IN IF ~c.ok THEN c
       ELSE IF "main" \notin DOMAIN c.it.functions
       THEN Err(c.it, ChifError("RuntimeError", "No main function found"))
       ELSE IF ~c.it.functions["main"].is_main
       THEN Err(c.it, ChifError("RuntimeError", "Main function must be marked with 'chif'"))
       ELSE self_call_function(c.it, c.it.functions["main"], <<>>)

SetInterp(it) ==
    /\ globals' = it.globals
    /\ locals' = it.locals
    /\ functions' = it.functions
    /\ struct_methods' = it.struct_methods
    /\ modules' = it.modules
    /\ out' = it.out
    /\ UNCHANGED hash_seed

\* execute: the first pass, the lookup of main, and call_function up to the
\* push of main's scope
Begin ==
    /\ pc = "new"
    /\ LET it == collect_items(Interp, ProgramItems).it
       IN IF "main" \in DOMAIN it.functions /\ it.functions["main"].is_main
          THEN /\ SetInterp([it EXCEPT !.locals = Append(@, EmptyMap)])
               /\ pc' = "main"
               /\ result' = NoResult
          ELSE /\ SetInterp(it)
               /\ pc' = "done"
               /\ result' = Returned(Err(it, ChifError("RuntimeError", "No main function found")))
    /\ UNCHANGED <<last, pre, steps>>

\* execute_block of main reaches its next statement: execute_statement, and
\* on an error the rest of call_function (pop the scope) and of execute
Step(statement) ==
    /\ pc = "main"
    /\ steps < MaxSteps
    /\ LET r == self_execute_statement(Interp, statement)
           popped == [r.it EXCEPT !.locals = IF @ = <<>> THEN @ ELSE SubSeq(@, 1, Len(@) - 1)]
       IN /\ last' = Some(statement)
          /\ pre' = Some(Interp)
          /\ steps' = steps + 1
          /\ IF r.ok
             THEN /\ SetInterp(r.it)
                  /\ pc' = "main"
                  /\ result' = NoResult
             ELSE /\ SetInterp(popped)
                  /\ pc' = "done"
                  /\ result' = IF r.error.err = "Return" THEN Returned(Ok(popped, NilV))
                                ELSE Returned(r)

\* execute_block of main is past its last statement: call_function pops the
\* scope and execute returns Ok
End ==
    /\ pc = "main"
    /\ SetInterp([Interp EXCEPT !.locals = IF @ = <<>> THEN @ ELSE SubSeq(@, 1, Len(@) - 1)])
    /\ pc' = "done"
    /\ result' = Returned(Ok(Interp, NilV))
    /\ last' = None
    /\ pre' = None
    /\ UNCHANGED steps

\* the analyzer and the arithmetic routines are not used by a run of the
\* interpreter, and conversely
SemIdle ==
    /\ sem = None
    /\ sem_prog = None
    /\ sem_res = None
    /\ sem_op = "none"
    /\ sem_calls = 0

ArithIdle ==
    /\ ar_in = None
    /\ ar_out = None

CallIdle ==
    /\ call_in = None
    /\ call_out = None

Init ==
    /\ InterpNew
    /\ SemIdle
    /\ ArithIdle
    /\ CallIdle

Next ==
    \/ (Begin /\ UNCHANGED <<sem_vars, ar_vars, call_vars>>)
    \/ (\E statement \in MainStatements : Step(statement) /\ UNCHANGED <<sem_vars, ar_vars, call_vars>>)
    \/ (End /\ UNCHANGED <<sem_vars, ar_vars, call_vars>>)

Spec == Init /\ [][Next]_vars

(***************************************************************************)
(* Properties of the interpreter, checked under Spec.  `pre` is the        *)
(* interpreter before the latest statement of main and `last` is that      *)
(* statement.                                                              *)
(***************************************************************************)
\* the value a read of name finds in interpreter it
Bound(it, name) == get_variable(it, name)

HoldsList(it, name) == Bound(it, name).ok /\ Bound(it, name).val.t = "List"

LastIs(statement) == last = Some(statement)

Failed == pc = "done" /\ result.returned /\ ~result.ok

MethodOf(statement) == statement.expr.method

ArgOf(statement, i) == statement.expr.args[i].value

\* what the claim on list mutation expects of the list old after a call
ExpectedList(old, statement) ==
    CASE MethodOf(statement) = "add" ->
            [k \in 1..Len(old) + 1 |-> IF k <= Len(old) THEN old[k] ELSE ArgOf(statement, 1)]
      [] MethodOf(statement) = "addAt" ->
            [k \in 1..Len(old) + 1 |->
                IF k <= ArgOf(statement, 2).v THEN old[k]
                ELSE IF k = ArgOf(statement, 2).v + 1 THEN ArgOf(statement, 1)
                ELSE old[k - 1]]
      [] MethodOf(statement) = "del" ->
            [k \in 1..Len(old) - 1 |->
                IF k <= ArgOf(statement, 1).v THEN old[k] ELSE old[k + 1]]

InRange(old, statement) ==
    CASE MethodOf(statement) = "add" -> TRUE
      [] MethodOf(statement) = "addAt" ->
            ArgOf(statement, 2).v >= 0 /\ ArgOf(statement, 2).v <= Len(old)
      [] MethodOf(statement) = "del" ->
            ArgOf(statement, 1).v >= 0 /\ ArgOf(statement, 1).v < Len(old)

\* C8: when l holds a list of length n, l.add(v) makes l the old list with v
\* appended, l.addAt(v, i) with 0 <= i <= n makes it the old list with v
\* inserted at index i, l.del(i) with 0 <= i < n makes it the old list without
\* element i, the call does not fail, and a later read of l or of l.len()
\* prints the list, or the length, that l then holds.
C8_ListMutation ==
    /\ \A statement \in ListCalls :
          (LastIs(statement) /\ HoldsList(pre.v, "l")
             /\ InRange(Bound(pre.v, "l").val.v, statement))
          => /\ pc = "main"
             /\ HoldsList(Interp, "l")
             /\ Bound(Interp, "l").val.v = ExpectedList(Bound(pre.v, "l").val.v, statement)
             /\ out = pre.v.out
    /\ (LastIs(ConOut(Id("l"))) /\ HoldsList(pre.v, "l"))
          => /\ pc = "main"
             /\ out = Append(pre.v.out, to_string(Bound(pre.v, "l").val, hash_seed))
             /\ Bound(Interp, "l") = WithIt(Bound(pre.v, "l"), Interp)
    /\ (LastIs(ConOut(MCall(Id("l"), "len", <<>>))) /\ HoldsList(pre.v, "l"))
          => /\ pc = "main"
             /\ out = Append(pre.v.out, IntToStr(Len(Bound(pre.v, "l").val.v)))

\* [1, 2] after addAt(8, 1) and then a read that prints "[1, 8, 2]"
C8_Witness ==
    /\ LastIs(ConOut(Id("l")))
    /\ pc = "main"
    /\ out = <<<<"[", "1", ",", " ", "8", ",", " ", "2", "]">>>>
    /\ Bound(Interp, "l").val = ListV(<<IntV(1), IntV(8), IntV(2)>>)

\* C9: l.addAt(v, i) with i < 0 or i > len, and l.del(i) with i < 0 or
\* i >= len, fail with the IndexOutOfBounds error and leave the list in l as
\* it was.
C9_OutOfRangeIsIndexOutOfBounds ==
    \A statement \in ListCalls :
        (LastIs(statement) /\ HoldsList(pre.v, "l")
           /\ ~InRange(Bound(pre.v, "l").val.v, statement))
        => /\ Failed
           /\ result.error.err = "IndexOutOfBounds"
           /\ self_execute_statement(pre.v, statement).it.locals = pre.v.locals

\* C5 (interpreter half): x is declared only inside the block of an if, so a
\* read of x after the if fails with variable-not-found.
C5_IfBlockVariableNotVisible ==
    LastIs(ConOut(Id("x")))
    => (Failed /\ result.error.err = "VariableNotFound" /\ result.error.info = "x")

\* C6: after p.method(3, 4) on p = P{x=1, y=2}, where the body of the method
\* is self.x = self.x + dx; self.y = self.y + dy, p holds x=4 and y=6, whatever
\* the name of the method.
C6_MethodAssignsFields ==
    \A m \in MethodNames :
        (LastIs(PointCall(m)) /\ Bound(pre.v, "p").ok
           /\ Bound(pre.v, "p").val = StructV("P", [x |-> IntV(1), y |-> IntV(2)]))
        => /\ pc = "main"
           /\ Bound(Interp, "p").val = StructV("P", [x |-> IntV(4), y |-> IntV(6)])

\* C7: inc(&v), where the body of inc is *x = *x + 1 and v holds the Int n,
\* completes without a runtime error and leaves n + 1 in v.
C7_WriteThroughPointer ==
    (LastIs(IncCall) /\ Bound(pre.v, "v").ok /\ Bound(pre.v, "v").val.t = "Int")
    => /\ pc = "main"
       /\ Bound(Interp, "v").val = IntV(Bound(pre.v, "v").val.v + 1)

(***************************************************************************)
(* semantic.rs: the symbol table.  A result of a call on the analyzer      *)
(* carries the analyzer as the call left it, as the results of the         *)
(* interpreter carry the interpreter; the Ok of a call that returns () has *)
(* the value <<>>.  Scope indices are the usize indices of the code, so    *)
(* scope i is scopes[i + 1].                                               *)
(***************************************************************************)
\* a SemanticError: the variant and what it carries besides the location
SemanticError(variant, info) == [sem_err |-> variant, info |-> info]

\* Symbol, with its SymbolType: Variable(type) or Function(signature)
Symbol(name, symbol_type, is_mutable) ==
    [name |-> name, symbol_type |-> symbol_type, is_mutable |-> is_mutable]

VariableSym(ty) == [st |-> "Variable", ty |-> ty]

FunctionSym(name, parameters, return_type, is_mutating) ==
    [st |-> "Function",
     sig |-> [name |-> name, parameters |-> parameters, return_type |-> return_type,
              is_mutating |-> is_mutating]]

\* SemanticAnalyzer::new, with SymbolTable::new and Scope::new(None)
SemanticAnalyzerNew ==
    [symbol_table |-> [scopes |-> <<[symbols |-> EmptyMap, parent |-> None]>>,
                       current_scope |-> 0],
     in_loop |-> FALSE,
     current_function_return_type |-> None,
     modules |-> EmptyMap]

\* SymbolTable::push_scope
push_scope(sa) ==
    [sa EXCEPT !.symbol_table =
        [scopes |-> Append(@.scopes, [symbols |-> EmptyMap, parent |-> Some(@.current_scope)]),
         current_scope |-> Len(@.scopes)]]

\* SymbolTable::pop_scope
pop_scope(sa) ==
    LET table == sa.symbol_table
        current == table.scopes[table.current_scope + 1]
    IN IF table.current_scope = 0
       THEN Err(sa, SemanticError("InvalidOperation", "Cannot pop global scope"))
       ELSE Ok(IF current.parent.some
               THEN [sa EXCEPT !.symbol_table.current_scope = current.parent.v]
               ELSE sa, <<>>)

\* SymbolTable::define_symbol, with Scope::define_symbol
define_symbol(sa, symbol) ==
    LET current == sa.symbol_table.current_scope + 1
    IN IF symbol.name \in DOMAIN sa.symbol_table.scopes[current].symbols
       THEN Err(sa, SemanticError("SymbolAlreadyDefined", symbol.name))
       ELSE Ok([sa EXCEPT !.symbol_table.scopes[current].symbols =
                              MapInsert(@, symbol.name, symbol)], <<>>)

\* SymbolTable::lookup_symbol, with Scope::lookup_symbol: from the current
\* scope along the parents
lookup_symbol(sa, name) ==
    LET scopes == sa.symbol_table.scopes
        walk[i \in 0..(Len(scopes) - 1)] ==
            IF name \in DOMAIN scopes[i + 1].symbols THEN Some(scopes[i + 1].symbols[name])
            ELSE IF scopes[i + 1].parent.some THEN walk[scopes[i + 1].parent.v]
            ELSE None
    IN walk[sa.symbol_table.current_scope]

\* a run of define_symbol(..)? calls: the first failure returns
RECURSIVE define_all(_, _)
define_all(sa, symbols) ==
    IF symbols = <<>> THEN Ok(sa, <<>>)
    ELSE LET r == define_symbol(sa, Head(symbols))
         IN IF r.ok THEN define_all(r.it, Tail(symbols)) ELSE r

\* the symbols add_builtin_functions defines, in the order of its
\* define_symbol calls (str_float_symbol is built and never defined)
BuiltinSymbols ==
    << Symbol("con", VariableSym(TStruct("Console")), FALSE),
       Symbol("randi", FunctionSym("randi", <<Param("min", TInt, FALSE), Param("max", TInt, FALSE)>>, TInt, FALSE), FALSE),
       Symbol("randf", FunctionSym("randf", <<Param("min", TFloat, FALSE), Param("max", TFloat, FALSE)>>, TFloat, FALSE), FALSE),
       Symbol("rands", FunctionSym("rands", <<Param("from", TStr, FALSE), Param("to", TStr, FALSE)>>, TStr, FALSE), FALSE),
       Symbol("int", FunctionSym("int", <<Param("value", TFloat, FALSE)>>, TInt, FALSE), FALSE),
       Symbol("int", FunctionSym("int", <<Param("value", TStr, FALSE)>>, TInt, FALSE), FALSE),
       Symbol("float", FunctionSym("float", <<Param("value", TInt, FALSE)>>, TFloat, FALSE), FALSE),
       Symbol("float", FunctionSym("float", <<Param("value", TStr, FALSE)>>, TFloat, FALSE), FALSE),
       Symbol("str", FunctionSym("str", <<Param("value", TInt, FALSE)>>, TStr, FALSE), FALSE),
       Symbol("float", FunctionSym("float", <<Param("value", TStr, FALSE)>>, TFloat, FALSE), FALSE),
       Symbol("str", FunctionSym("str", <<Param("value", TInt, FALSE)>>, TStr, FALSE), FALSE),
       Symbol("http", VariableSym(TStruct("Http")), FALSE) >>

add_builtin_functions(sa) == define_all(sa, BuiltinSymbols)

\* the symbol collect_definitions defines for a function
FunctionSymbol(func) ==
    Symbol(func.name,
           FunctionSym(func.name, func.params,
                       IF func.return_type.some THEN func.return_type.v ELSE TNil, FALSE),
           FALSE)

\* format!("{}_{}", a, b) on identifiers
Qualified(a, b) == NameOf(Spelling(a) \o <<"_">> \o Spelling(b))

\* the symbol process_import defines for a function of the module
ImportedSymbol(module_name, func) ==
    Symbol(Qualified(module_name, func.name),
           FunctionSym(func.name, func.params,
                       IF func.return_type.some THEN func.return_type.v ELSE TNil, FALSE),
           FALSE)

\* SemanticAnalyzer::process_import, for files whose items are functions
\* and imports
analyzer_process_import(sa, import) ==
    LET file_path == FilePath(import.path)
    IN IF file_path \notin DOMAIN Files
       THEN Err(sa, SemanticError("InvalidOperation", "Could not read module file"))
       ELSE LET items == Files[file_path]
                module_name == ModuleName(import)
                funcs == {i \in 1..Len(items) : items[i].item = "Function"}
                names == {items[i].func.name : i \in funcs}
                module_functions ==
                    [n \in names |->
                        ImportedSymbol(module_name,
                            items[SetMax({i \in funcs : items[i].func.name = n})].func)
                            .symbol_type.sig]
                \* the function items in the order of the file; the loop has
                \* no arm for an import item
                in_order == SelectSeq(items, LAMBDA item : item.item = "Function")
                defined == define_all(sa, [i \in 1..Len(in_order) |->
                                              ImportedSymbol(module_name, in_order[i].func)])
            IN IF ~defined.ok THEN defined
               ELSE Ok([defined.it EXCEPT !.modules =
                            MapInsert(@, module_name,
                                      [name |-> module_name, functions |-> module_functions])],
                       <<>>)

\* the `for item in &program.items` loop of collect_definitions, for programs
\* whose items are functions and imports
RECURSIVE collect_from(_, _)
collect_from(sa, items) ==
    IF items = <<>> THEN Ok(sa, <<>>)
    ELSE LET item == Head(items)
             r == IF item.item = "Import" THEN analyzer_process_import(sa, item.import)
                  ELSE define_symbol(sa, FunctionSymbol(item.func))
         IN IF ~r.ok THEN r ELSE collect_from(r.it, Tail(items))

\* collect_definitions
collect_definitions(sa, program) ==
    LET r == add_builtin_functions(sa)
    IN IF ~r.ok THEN r ELSE collect_from(r.it, program)

(***************************************************************************)
(* semantic.rs: the second pass, analyze_program.  An error returns at     *)
(* once through `?`, so what the call had done to the analyzer by then     *)
(* (scopes pushed, in_loop set) stays done.                                *)
(***************************************************************************)
\* `r?` followed by the rest of the function, F, on the analyzer r left
Try(r, F(_)) == IF r.ok THEN F(r.it) ELSE r

RECURSIVE types_compatible(_, _)
types_compatible(expected, actual) ==
    CASE expected.k \in {"Int", "Float", "Str", "Bool", "Nil"} /\ actual.k = expected.k -> TRUE
      [] expected.k = "Float" /\ actual.k = "Int" -> TRUE
      [] expected.k \in {"Array", "List"} /\ actual.k \in {"Array", "List"} ->
             types_compatible(expected.elem, actual.elem)
      [] expected.k = "Map" /\ actual.k = "Map" ->
             /\ types_compatible(expected.key, actual.key)
             /\ types_compatible(expected.val, actual.val)
      [] expected.k = "Struct" /\ actual.k = "Struct" -> expected.name = actual.name
      [] expected.k = "Pointer" /\ actual.k = "Pointer" ->
             types_compatible(expected.target, actual.target)
      [] expected.k = "Pointer" /\ actual.k = "Nil" -> TRUE
      [] OTHER -> FALSE

\* analyze_expression on literals, identifiers, binary and unary operations,
\* calls, array literals and references; these arms leave the analyzer as
\* it was
RECURSIVE analyze_expression(_, _)
analyze_expression(sa, expr) ==
    CASE expr.e = "Literal" ->
            LET t == expr.value.t
            IN Ok(sa, CASE t = "Int" -> TInt
                        [] t = "Float" -> TFloat
                        [] t = "Str" -> TStr
                        [] t = "Bool" -> TBool
                        [] t = "Nil" -> TNil
                        [] t = "Array" -> TArray(TNil, <<0>>)
                        [] t = "List" -> TList(TNil, <<>>)
                        [] t = "Map" -> TMap(TNil, TNil)
                        [] t = "Struct" -> TNil
                        [] OTHER -> TPointer(TNil))
      [] expr.e = "Identifier" ->
            LET symbol == lookup_symbol(sa, expr.name)
            IN IF ~symbol.some THEN Err(sa, SemanticError("UndefinedSymbol", expr.name))
               ELSE IF symbol.v.symbol_type.st = "Variable" THEN Ok(sa, symbol.v.symbol_type.ty)
               ELSE Err(sa, SemanticError("InvalidOperation", "is not a variable"))
      [] expr.e = "Binary" ->
            LET left == analyze_expression(sa, expr.left)
                right == analyze_expression(sa, expr.right)
                op == expr.operator
                mismatch == Err(sa, SemanticError("TypeMismatch",
                                [expected |-> left.val, found |-> right.val]))
            IN IF ~left.ok THEN left
               ELSE IF ~right.ok THEN right
               ELSE LET l == left.val.k
                        r == right.val.k
                    IN (CASE op \in {"Add", "Subtract", "Multiply", "Divide", "Modulo"} ->
                              CASE l = "Int" /\ r = "Int" -> Ok(sa, TInt)
                                [] l = "Float" /\ r = "Float" -> Ok(sa, TFloat)
                                [] {l, r} = {"Int", "Float"} -> Ok(sa, TFloat)
                                [] l = "Str" /\ r = "Str" /\ op = "Add" -> Ok(sa, TStr)
                                [] OTHER -> mismatch
                         [] op \in {"Equal", "NotEqual"} -> Ok(sa, TBool)
                         [] op \in {"Less", "Greater", "LessEqual", "GreaterEqual"} ->
                              IF ({l, r} \subseteq {"Int", "Float"}) \/ (l = "Str" /\ r = "Str")
                              THEN Ok(sa, TBool)
                              ELSE mismatch
                         [] op \in {"And", "Or"} ->
                              IF l = "Bool" /\ r = "Bool" THEN Ok(sa, TBool)
                              ELSE Err(sa, SemanticError("TypeMismatch",
                                       [expected |-> TBool,
                                        found |-> IF l # "Bool" THEN left.val ELSE right.val])))
      [] expr.e = "Unary" ->
            LET operand == analyze_expression(sa, expr.operand)
            IN IF ~operand.ok THEN operand
               ELSE IF expr.operator = "Minus"
               THEN IF operand.val.k \in {"Int", "Float"} THEN operand
                    ELSE Err(sa, SemanticError("InvalidOperation", "Cannot apply unary minus"))
               ELSE IF operand.val = TBool THEN operand
                    ELSE Err(sa, SemanticError("TypeMismatch",
                             [expected |-> TBool, found |-> operand.val]))
      [] expr.e = "Call" ->
            LET arg_types == [i \in 1..Len(expr.args) |-> analyze_expression(sa, expr.args[i])]
                failed == {i \in 1..Len(expr.args) : ~arg_types[i].ok}
                symbol == lookup_symbol(sa, expr.name)
            IN IF failed # {} THEN arg_types[SetMin(failed)]
               ELSE IF ~symbol.some THEN Err(sa, SemanticError("UndefinedSymbol", expr.name))
               ELSE IF symbol.v.symbol_type.st # "Function"
               THEN Err(sa, SemanticError("InvalidOperation", "is not a function"))
               ELSE LET signature == symbol.v.symbol_type.sig
                        bad == {i \in 1..Len(expr.args) :
                                   ~types_compatible(signature.parameters[i].param_type,
                                                     arg_types[i].val)}
                    IN IF Len(expr.args) # Len(signature.parameters)
                       THEN Err(sa, SemanticError("InvalidOperation", "wrong number of arguments"))
                       ELSE IF bad # {}
                       THEN Err(sa, SemanticError("TypeMismatch",
                                [expected |-> signature.parameters[SetMin(bad)].param_type,
                                 found |-> arg_types[SetMin(bad)].val]))
                       ELSE Ok(sa, signature.return_type)
      [] expr.e = "ArrayLiteral" ->
            LET n == Len(expr.elements)
                types == [i \in 1..n |-> analyze_expression(sa, expr.elements[i])]
                \* the first element that fails to analyze or to match the first
                stops == {i \in 1..n : \/ ~types[i].ok
                                       \/ (i > 1 /\ ~types_compatible(types[1].val, types[i].val))}
            IN IF n = 0 THEN Ok(sa, TArray(TNil, <<0>>))
               ELSE IF stops # {}
               THEN LET i == SetMin(stops)
                    IN IF ~types[i].ok THEN types[i]
                       ELSE Err(sa, SemanticError("TypeMismatch",
                                [expected |-> types[1].val, found |-> types[i].val]))
               ELSE IF types[1].val.k = "Array"
               THEN Ok(sa, TArray(types[1].val.elem, <<n>> \o types[1].val.dims))
               ELSE Ok(sa, TArray(types[1].val, <<n>>))
      [] expr.e = "Reference" ->
            LET inner == analyze_expression(sa, expr.expr)
            IN IF inner.ok THEN Ok(sa, TPointer(inner.val)) ELSE inner
      [] expr.e = "MethodCall" ->
            LET n == Len(expr.args)
                arg_types == [i \in 1..n |-> analyze_expression(sa, expr.args[i])]
                failed == {i \in 1..n : ~arg_types[i].ok}
                \* the first argument that fails to analyze or is not a string
                not_str == {i \in 1..n : ~arg_types[i].ok \/ arg_types[i].val # TStr}
                strings(count) ==
                    IF n # count THEN Err(sa, SemanticError("InvalidOperation", "http argument count"))
                    ELSE IF not_str # {}
                    THEN LET i == SetMin(not_str)
                         IN IF ~arg_types[i].ok THEN arg_types[i]
                            ELSE Err(sa, SemanticError("TypeMismatch",
                                     [expected |-> TStr, found |-> arg_types[i].val]))
                    ELSE Ok(sa, TStr)
                object_name == IF expr.object.e = "Identifier" THEN expr.object.name ELSE ""
                object_type == analyze_expression(sa, expr.object)
            IN IF object_name = "con" /\ expr.method = "out"
               THEN IF failed # {} THEN arg_types[SetMin(failed)] ELSE Ok(sa, TNil)
               ELSE IF object_name = "con" /\ expr.method = "in"
               THEN IF n # 0 THEN Err(sa, SemanticError("InvalidOperation", "con.in expects no arguments"))
                    ELSE Ok(sa, TInt)
               ELSE IF object_name = "http" /\ expr.method \in {"get", "delete"} THEN strings(1)
               ELSE IF object_name = "http" /\ expr.method \in {"post", "put"} THEN strings(2)
               ELSE IF ~object_type.ok THEN object_type
               ELSE IF failed # {} THEN arg_types[SetMin(failed)]
               ELSE IF object_type.val.k # "Struct"
               THEN Err(sa, SemanticError("InvalidOperation", "Cannot call method on non-struct type"))
               ELSE LET method_name == Qualified(object_type.val.name, expr.method)
                        symbol == lookup_symbol(sa, method_name)
                    IN IF ~symbol.some THEN Err(sa, SemanticError("UndefinedSymbol", method_name))
                       ELSE IF symbol.v.symbol_type.st # "Function"
                       THEN Err(sa, SemanticError("InvalidOperation", "is not a method"))
                       ELSE LET signature == symbol.v.symbol_type.sig
                                \* saturating_sub(1): the parameters without self
                                expected_args == IF signature.parameters = <<>> THEN 0
                                                 ELSE Len(signature.parameters) - 1
                                bad == {i \in 1..n :
                                           ~types_compatible(signature.parameters[i + 1].param_type,
                                                             arg_types[i].val)}
                            IN IF n # expected_args
                               THEN Err(sa, SemanticError("InvalidOperation",
                                                          "wrong number of arguments"))
                               ELSE IF bad # {}
                               THEN Err(sa, SemanticError("TypeMismatch",
                                        [expected |-> signature.parameters[SetMin(bad) + 1].param_type,
                                         found |-> arg_types[SetMin(bad)].val]))
                               ELSE Ok(sa, signature.return_type)

RECURSIVE analyze_block(_, _), analyze_statement(_, _), analyze_cases(_, _)

\* analyze_block
analyze_block(sa, block) ==
    IF block = <<>> THEN Ok(sa, <<>>)
    ELSE Try(analyze_statement(sa, Head(block)), LAMBDA s : analyze_block(s, Tail(block)))

\* the `for case in &switch_stmt.cases` loop of analyze_statement
analyze_cases(sa, cases) ==
    IF cases = <<>> THEN Ok(sa, <<>>)
    ELSE Try(analyze_expression(sa, Head(cases).value), LAMBDA s :
         Try(analyze_block(s, Head(cases).body), LAMBDA s2 :
         analyze_cases(s2, Tail(cases))))

analyze_statement(sa, statement) ==
    CASE statement.s = "VarDecl" ->
            Try(IF statement.value.some THEN analyze_expression(sa, statement.value.v)
                ELSE Ok(sa, <<>>), LAMBDA s :
            define_symbol(s, Symbol(statement.name, VariableSym(statement.var_type),
                                    statement.is_mutable)))
      [] statement.s = "Assignment" ->
            Try(analyze_expression(sa, statement.target), LAMBDA s :
            Try(analyze_expression(s, statement.value), LAMBDA s2 : Ok(s2, <<>>)))
      [] statement.s = "Expression" ->
            Try(analyze_expression(sa, statement.expr), LAMBDA s : Ok(s, <<>>))
      [] statement.s = "Return" ->
            IF statement.expr.some
            THEN Try(analyze_expression(sa, statement.expr.v), LAMBDA s : Ok(s, <<>>))
            ELSE Ok(sa, <<>>)
      [] statement.s = "If" ->
            Try(analyze_expression(sa, statement.condition), LAMBDA s :
            Try(analyze_block(s, statement.then_block), LAMBDA s2 :
            IF statement.else_block.some THEN analyze_block(s2, statement.else_block.v)
            ELSE Ok(s2, <<>>)))
      [] statement.s = "While" ->
            Try(analyze_expression(sa, statement.condition), LAMBDA s :
            Try(analyze_block([s EXCEPT !.in_loop = TRUE], statement.body), LAMBDA s2 :
            Ok([s2 EXCEPT !.in_loop = s.in_loop], <<>>)))
      [] statement.s = "For" ->
            Try(IF statement.init.some THEN analyze_statement(push_scope(sa), statement.init.v)
                ELSE Ok(push_scope(sa), <<>>), LAMBDA s :
            Try(IF statement.condition.some THEN analyze_expression(s, statement.condition.v)
                ELSE Ok(s, <<>>), LAMBDA s2 :
            Try(IF statement.update.some THEN analyze_statement(s2, statement.update.v)
                ELSE Ok(s2, <<>>), LAMBDA s3 :
            Try(analyze_block([s3 EXCEPT !.in_loop = TRUE], statement.body), LAMBDA s4 :
            pop_scope([s4 EXCEPT !.in_loop = s3.in_loop])))))
      [] statement.s = "Switch" ->
            Try(analyze_expression(sa, statement.expr), LAMBDA s :
            Try(analyze_cases(s, statement.cases), LAMBDA s2 :
            IF statement.default_case.some THEN analyze_block(s2, statement.default_case.v)
            ELSE Ok(s2, <<>>)))
      [] statement.s = "Break" ->
            IF ~sa.in_loop THEN Err(sa, SemanticError("InvalidBreak", <<>>)) ELSE Ok(sa, <<>>)
      [] statement.s = "Continue" ->
            IF ~sa.in_loop THEN Err(sa, SemanticError("InvalidContinue", <<>>)) ELSE Ok(sa, <<>>)

\* the parameters of a function as the symbols analyze_item and
\* check_item_types define for them
ParamSymbols(params, by_reference) ==
    [i \in 1..Len(params) |->
        Symbol(params[i].name, VariableSym(params[i].param_type),
               by_reference /\ params[i].is_reference)]

\* analyze_item, for Item::Function and Item::Import
analyze_item(sa, item) ==
    LET func == item.func
        entered == [push_scope(sa) EXCEPT !.current_function_return_type = func.return_type]
    IN IF item.item = "Import" THEN Ok(sa, <<>>) ELSE
       Try(define_all(entered, ParamSymbols(func.params, TRUE)), LAMBDA s :
       Try(analyze_block(s, func.body), LAMBDA s2 :
       pop_scope([s2 EXCEPT !.current_function_return_type =
                                sa.current_function_return_type])))

\* analyze_program
RECURSIVE analyze_program(_, _)
analyze_program(sa, program) ==
    IF program = <<>> THEN Ok(sa, <<>>)
    ELSE Try(analyze_item(sa, Head(program)), LAMBDA s : analyze_program(s, Tail(program)))

(***************************************************************************)
(* semantic.rs: the third pass, check_types, and analyze.                  *)
(***************************************************************************)
TypeMismatch(sa, expected, found) ==
    Err(sa, SemanticError("TypeMismatch", [expected |-> expected, found |-> found]))

RECURSIVE check_block_types(_, _, _), check_statement_types(_, _, _), check_cases(_, _, _, _)

\* check_block_types
check_block_types(sa, block, expected_return_type) ==
    IF block = <<>> THEN Ok(sa, <<>>)
    ELSE Try(check_statement_types(sa, Head(block), expected_return_type), LAMBDA s :
         check_block_types(s, Tail(block), expected_return_type))

\* the `for case in &switch_stmt.cases` loop of check_statement_types
check_cases(sa, switch_type, cases, expected_return_type) ==
    IF cases = <<>> THEN Ok(sa, <<>>)
    ELSE LET case_type == analyze_expression(sa, Head(cases).value)
         IN IF ~case_type.ok THEN case_type
            ELSE IF ~types_compatible(switch_type, case_type.val)
            THEN TypeMismatch(sa, switch_type, case_type.val)
            ELSE Try(check_block_types(sa, Head(cases).body, expected_return_type), LAMBDA s :
                 check_cases(s, switch_type, Tail(cases), expected_return_type))

check_statement_types(sa, statement, expected_return_type) ==
    CASE statement.s = "VarDecl" ->
            LET expr_type == IF statement.value.some
                             THEN analyze_expression(sa, statement.value.v)
                             ELSE Ok(sa, statement.var_type)
            IN IF ~expr_type.ok THEN expr_type
               ELSE IF statement.value.some /\ ~types_compatible(statement.var_type, expr_type.val)
               THEN TypeMismatch(sa, statement.var_type, expr_type.val)
               ELSE define_symbol(sa, Symbol(statement.name, VariableSym(statement.var_type),
                                             statement.is_mutable))
      [] statement.s = "Assignment" ->
            LET target_type == analyze_expression(sa, statement.target)
                value_type == analyze_expression(sa, statement.value)
            IN IF ~target_type.ok THEN target_type
               ELSE IF ~value_type.ok THEN value_type
               ELSE IF ~types_compatible(target_type.val, value_type.val)
               THEN TypeMismatch(sa, target_type.val, value_type.val)
               ELSE Ok(sa, <<>>)
      [] statement.s = "Return" ->
            IF statement.expr.some
            THEN LET return_type == analyze_expression(sa, statement.expr.v)
                 IN IF ~return_type.ok THEN return_type
                    ELSE IF /\ expected_return_type.some
                            /\ ~types_compatible(expected_return_type.v, return_type.val)
                    THEN TypeMismatch(sa, expected_return_type.v, return_type.val)
                    ELSE Ok(sa, <<>>)
            ELSE IF expected_return_type.some /\ expected_return_type.v # TNil
                 THEN TypeMismatch(sa, expected_return_type.v, TNil)
                 ELSE Ok(sa, <<>>)
      [] statement.s = "If" ->
            LET condition_type == analyze_expression(sa, statement.condition)
            IN IF ~condition_type.ok THEN condition_type
               ELSE IF condition_type.val # TBool THEN TypeMismatch(sa, TBool, condition_type.val)
               ELSE Try(check_block_types(sa, statement.then_block, expected_return_type),
                        LAMBDA s :
                        IF statement.else_block.some
                        THEN check_block_types(s, statement.else_block.v, expected_return_type)
                        ELSE Ok(s, <<>>))
      [] statement.s = "While" ->
            LET condition_type == analyze_expression(sa, statement.condition)
            IN IF ~condition_type.ok THEN condition_type
               ELSE IF condition_type.val # TBool THEN TypeMismatch(sa, TBool, condition_type.val)
               ELSE Try(check_block_types([sa EXCEPT !.in_loop = TRUE], statement.body,
                                          expected_return_type),
                        LAMBDA s : Ok([s EXCEPT !.in_loop = sa.in_loop], <<>>))
      [] statement.s = "For" ->
            Try(IF statement.init.some
                THEN check_statement_types(push_scope(sa), statement.init.v, expected_return_type)
                ELSE Ok(push_scope(sa), <<>>), LAMBDA s :
            LET condition_type == IF statement.condition.some
                                  THEN analyze_expression(s, statement.condition.v)
                                  ELSE Ok(s, TBool)
            IN IF ~condition_type.ok THEN condition_type
               ELSE IF condition_type.val # TBool THEN TypeMismatch(s, TBool, condition_type.val)
               ELSE Try(IF statement.update.some THEN analyze_statement(s, statement.update.v)
                        ELSE Ok(s, <<>>), LAMBDA s2 :
                    Try(check_block_types([s2 EXCEPT !.in_loop = TRUE], statement.body,
                                          expected_return_type), LAMBDA s3 :
                    pop_scope([s3 EXCEPT !.in_loop = s2.in_loop]))))
      [] statement.s = "Switch" ->
            LET switch_type == analyze_expression(sa, statement.expr)
            IN IF ~switch_type.ok THEN switch_type
               ELSE Try(check_cases(sa, switch_type.val, statement.cases, expected_return_type),
                        LAMBDA s :
                        IF statement.default_case.some
                        THEN check_block_types(s, statement.default_case.v, expected_return_type)
                        ELSE Ok(s, <<>>))
      [] statement.s = "Expression" ->
            Try(analyze_expression(sa, statement.expr), LAMBDA s : Ok(s, <<>>))
      [] statement.s = "Break" ->
            IF ~sa.in_loop THEN Err(sa, SemanticError("InvalidBreak", <<>>)) ELSE Ok(sa, <<>>)
      [] statement.s = "Continue" ->
            IF ~sa.in_loop THEN Err(sa, SemanticError("InvalidContinue", <<>>)) ELSE Ok(sa, <<>>)

RECURSIVE block_always_returns(_), statement_always_returns(_)

block_always_returns(block) ==
    \E i \in 1..Len(block) : statement_always_returns(block[i])

statement_always_returns(statement) ==
    CASE statement.s = "Return" -> TRUE
      [] statement.s = "If" ->
            /\ statement.else_block.some
            /\ block_always_returns(statement.then_block)
            /\ block_always_returns(statement.else_block.v)
      [] statement.s = "Switch" ->
            /\ statement.default_case.some
            /\ \A i \in 1..Len(statement.cases) : block_always_returns(statement.cases[i].body)
            /\ block_always_returns(statement.default_case.v)
      [] OTHER -> FALSE

\* check_item_types, for Item::Function
check_item_types(sa, item) ==
    LET func == item.func
        entered == [push_scope(sa) EXCEPT !.current_function_return_type = func.return_type]
    IN IF item.item = "Import" THEN Ok(sa, <<>>) ELSE
       Try(define_all(entered, ParamSymbols(func.params, FALSE)), LAMBDA s :
       Try(check_block_types(s, func.body, func.return_type), LAMBDA s2 :
       IF /\ func.return_type.some
          /\ func.return_type.v # TNil
          /\ ~func.is_main
          /\ ~block_always_returns(func.body)
       THEN Err(s2, SemanticError("InvalidOperation", "must return a value in all code paths"))
       ELSE pop_scope([s2 EXCEPT !.current_function_return_type =
                                     sa.current_function_return_type])))

\* check_types
RECURSIVE check_types(_, _)
check_types(sa, program) ==
    IF program = <<>> THEN Ok(sa, <<>>)
    ELSE Try(check_item_types(sa, Head(program)), LAMBDA s : check_types(s, Tail(program)))

\* analyze: the three passes; the Ok carries the items of the program
analyze(sa, program) ==
    Try(collect_definitions(sa, program), LAMBDA s :
    Try(analyze_program(s, program), LAMBDA s2 :
    Try(check_types(s2, program), LAMBDA s3 : Ok(s3, program))))

(***************************************************************************)
(* The analyzer as a state machine: a SemanticAnalyzer is constructed, a   *)
(* Program is at hand, and the public entry points analyze and check_types *)
(* are called on it.  The programs are one function whose body is made of  *)
(* the statements of semantic_test.rs and of loops, breaks and typed       *)
(* declarations.                                                           *)
(***************************************************************************)
MaxBody == 2

LitInt(n) == Lit(IntV(n))
LitTrue == Lit(BoolV(TRUE))
DeclX(value) == VarDecl("x", TInt, Some(value), FALSE)
IfElseReturns ==
    IfS(Id("condition"), <<ReturnS(Some(LitInt(1)))>>, Some(<<ReturnS(Some(LitInt(0)))>>))

\* declarations `name: E = initialiser`, one for each way two types can meet
TypedDecls ==
    << DeclX(LitInt(42)),
      DeclX(Lit(StrV(<<"h", "e", "l", "l", "o">>))),
      DeclX(Bin("Add", LitInt(5), LitInt(3))),
      VarDecl("y", TFloat, Some(LitInt(1)), FALSE),
      VarDecl("l", TList(TInt, <<>>), Some(ArrLit(<<LitInt(1), LitInt(2)>>)), FALSE),
      VarDecl("v", TArray(TInt, <<3>>), Some(ArrLit(<<LitInt(1), LitInt(2)>>)), FALSE),
      VarDecl("p", TPointer(TInt), Some(Lit(NilV)), FALSE) >>

\* loops whose bodies hold a break or a continue
Loops ==
    << WhileS(LitTrue, <<BreakS>>),
       WhileS(LitTrue, <<IfS(LitTrue, <<ContinueS>>, None)>>),
       ForS(None, None, None, <<IfS(LitTrue, <<BreakS>>, None)>>) >>

SemStatements ==
    TypedDecls \o Loops \o
    << ReturnS(Some(Id("x"))),
      ReturnS(Some(Id("undefined_var"))),
      IfElseReturns,
      IfS(LitTrue, <<DeclX(LitInt(1))>>, None),
      BreakS,
      ContinueS,
      WhileS(LitTrue, <<DeclX(Lit(StrV(<<"h", "i">>)))>>) >>

\* the parameter lists of the function
SemParams == << <<>>, <<Param("x", TInt, FALSE)>>, <<Param("condition", TBool, FALSE)>> >>

\* the program of one function: its parameter list, whether it declares the
\* return type Int, the statements of its body by their places in
\* SemStatements, and whether it is main
SemProgram(params, returns_int, picks, is_main) ==
    << FunctionItem(Function(IF is_main THEN "main" ELSE "test_func",
                             SemParams[params],
                             IF returns_int THEN Some(TInt) ELSE None,
                             [i \in 1..Len(picks) |-> SemStatements[picks[i]]],
                             is_main)) >>

SemInit ==
    /\ InterpNew
    /\ ArithIdle
    /\ CallIdle
    /\ sem = SemanticAnalyzerNew
    /\ \E params \in 1..Len(SemParams), returns_int \in BOOLEAN, is_main \in BOOLEAN,
          picks \in UNION {[1..n -> 1..Len(SemStatements)] : n \in 0..MaxBody} :
            sem_prog = SemProgram(params, returns_int, picks, is_main)
    /\ sem_res = None
    /\ sem_op = "none"
    /\ sem_calls = 0

\* the return of an entry point: the analyzer is left as the call left it,
\* and the Result is kept
SemReturn(op, r) ==
    /\ sem' = r.it
    /\ sem_res' = WithIt(r, <<>>)
    /\ sem_op' = op
    /\ sem_calls' = sem_calls + 1
    /\ UNCHANGED <<sem_prog, interp_vars, ar_vars, call_vars>>

Analyze ==
    /\ sem_calls < MaxSemCalls
    /\ SemReturn("analyze", analyze(sem, sem_prog))

CheckTypes ==
    /\ sem_calls < MaxSemCalls
    /\ SemReturn("check_types", check_types(sem, sem_prog))

SemNext == Analyze \/ CheckTypes

SpecSem == SemInit /\ [][SemNext]_vars

(***************************************************************************)
(* Properties of the analyzer, checked under SpecSem.                      *)
(***************************************************************************)
\* analyze has just returned, and it was the first call on the analyzer
Analyzed == sem_op = "analyze" /\ sem_calls = 1

\* the function of the program at hand
Func == sem_prog[1].func

\* C1: analyze on a fresh analyzer returns Ok for a non-main function with Int
\* or Bool parameters that declares Int variables initialised by Int
\* expressions and returns an Int identifier on every path.
C1_WellTypedProgramAccepted ==
    ( /\ Analyzed
      /\ ~Func.is_main
      /\ Func.return_type = Some(TInt)
      /\ \/ /\ Func.params = <<Param("x", TInt, FALSE)>>
            /\ Func.body = <<ReturnS(Some(Id("x")))>>
         \/ /\ Func.params # <<Param("x", TInt, FALSE)>>
            /\ \/ Func.body = <<DeclX(LitInt(42)), ReturnS(Some(Id("x")))>>
               \/ Func.body = <<DeclX(Bin("Add", LitInt(5), LitInt(3))), ReturnS(Some(Id("x")))>> )
    => sem_res.ok

\* C2: for a non-main function declared to return Int, analysis fails when no
\* statement of the body always returns, and passes when the body is an
\* if/else on a Bool parameter whose two arms return an Int; main is exempt.
C2_ReturnCoverage ==
    (Analyzed /\ Func.return_type = Some(TInt))
    => /\ (~Func.is_main /\ ~block_always_returns(Func.body)) => ~sem_res.ok
       /\ (Func.params = <<Param("condition", TBool, FALSE)>> /\ Func.body = <<IfElseReturns>>)
            => sem_res.ok
       /\ (Func.is_main /\ Func.params = <<>> /\ Func.body = <<DeclX(LitInt(42))>>)
            => sem_res.ok

\* C3: a declaration `name: E = initialiser`, the initialiser of static type
\* A, is accepted iff E = A, or E is Float and A is Int, or E and A are Array or
\* List types of compatible elements, or E is a Pointer and A is Nil;
\* otherwise analysis fails with the type mismatch of E and A.
C3_CompatibleInitialiser ==
    \A d \in 1..Len(TypedDecls) :
        ( /\ Analyzed
          /\ Func.params = <<>>
          /\ Func.return_type = None
          /\ Func.body = <<TypedDecls[d]>> )
        => LET decl == TypedDecls[d]
               E == decl.var_type
               A == analyze_expression(SemanticAnalyzerNew, decl.value.v).val
               accepted == \/ E = A
                           \/ (E = TFloat /\ A = TInt)
                           \/ /\ E.k \in {"Array", "List"}
                              /\ A.k \in {"Array", "List"}
                              /\ E.k # A.k
                              /\ E.elem = A.elem
                           \/ (E.k = "Pointer" /\ A = TNil)
           IN IF accepted THEN sem_res.ok
              ELSE /\ ~sem_res.ok
                   /\ sem_res.error.sem_err = "TypeMismatch"
                   /\ sem_res.error.info = [expected |-> E, found |-> A]

\* C4: a break (continue) at the top level of the function body, or after a
\* loop has ended, is rejected with the break-outside-loop
\* (continue-outside-loop) error, and one inside the body of a loop, also under
\* an if, is accepted.
C4_BreakOnlyInsideLoop ==
    (Analyzed /\ Func.return_type = None /\ Func.body # <<>>)
    => LET first == Func.body[1]
           final == Func.body[Len(Func.body)]
           IsLoop(statement) == \E i \in 1..Len(Loops) : statement = Loops[i]
       IN /\ first = BreakS
               => (~sem_res.ok /\ sem_res.error.sem_err = "InvalidBreak")
          /\ first = ContinueS
               => (~sem_res.ok /\ sem_res.error.sem_err = "InvalidContinue")
          /\ (IsLoop(first) /\ final = BreakS)
               => (~sem_res.ok /\ sem_res.error.sem_err = "InvalidBreak")
          /\ (\A i \in 1..Len(Func.body) : IsLoop(Func.body[i])) => sem_res.ok

(***************************************************************************)
(* ir_gen.rs: fold_constants, the constant folder of the compiled mode.    *)
(***************************************************************************)
fold_constants(left, op, right) ==
    LET a == IF left.t = "Int" THEN MkFloat(left.v, 1) ELSE left
        b == IF right.t = "Int" THEN MkFloat(right.v, 1) ELSE right
        zero == (right.t = "Int" /\ right.v = 0) \/ (right.t = "Float" /\ right = FloatV(0, 1))
    IN CASE left.t = "Int" /\ right.t = "Int" ->
              (CASE op = "Add" -> Some(IntV(left.v + right.v))
                 [] op = "Subtract" -> Some(IntV(left.v - right.v))
                 [] op = "Multiply" -> Some(IntV(left.v * right.v))
                 [] op = "Divide" /\ ~zero -> Some(IntV(TruncDiv(left.v, right.v)))
                 [] op = "Modulo" /\ ~zero -> Some(IntV(TruncRem(left.v, right.v)))
                 [] op = "Equal" -> Some(BoolV(left.v = right.v))
                 [] op = "NotEqual" -> Some(BoolV(left.v # right.v))
                 [] op = "Less" -> Some(BoolV(left.v < right.v))
                 [] op = "Greater" -> Some(BoolV(left.v > right.v))
                 [] op = "LessEqual" -> Some(BoolV(left.v <= right.v))
                 [] op = "GreaterEqual" -> Some(BoolV(left.v >= right.v))
                 [] OTHER -> None)
         [] {left.t, right.t} \subseteq {"Int", "Float"}
            /\ (op \in {"Add", "Subtract", "Multiply"} \/ (op = "Divide" /\ ~zero)) ->
              (CASE op = "Add" -> Some(FloatAdd(a, b))
                 [] op = "Subtract" -> Some(FloatSub(a, b))
                 [] op = "Multiply" -> Some(FloatMul(a, b))
                 [] op = "Divide" -> Some(FloatDiv(a, b)))
         [] left.t = "Float" /\ right.t = "Float" ->
              (CASE op = "Equal" -> Some(BoolV(FloatClose(left, right)))
                 [] op = "NotEqual" ->
                        Some(BoolV(~FloatClose(left, right) /\ ~IsNaN(FloatSub(left, right))))
                 [] op = "Less" -> Some(BoolV(FloatLess(left, right)))
                 [] op = "Greater" -> Some(BoolV(FloatLess(right, left)))
                 [] op = "LessEqual" ->
                        Some(BoolV(FloatLess(left, right) \/ (~IsNaN(left) /\ left = right)))
                 [] op = "GreaterEqual" ->
                        Some(BoolV(FloatLess(right, left) \/ (~IsNaN(left) /\ left = right)))
                 [] OTHER -> None)
         [] left.t = "Bool" /\ right.t = "Bool" ->
              (CASE op = "And" -> Some(BoolV(left.v /\ right.v))
                 [] op = "Or" -> Some(BoolV(left.v \/ right.v))
                 [] op = "Equal" -> Some(BoolV(left.v = right.v))
                 [] op = "NotEqual" -> Some(BoolV(left.v # right.v))
                 [] OTHER -> None)
         [] left.t = "Str" /\ right.t = "Str" /\ op = "Add" -> Some(StrV(left.v \o right.v))
         [] OTHER -> None

(***************************************************************************)
(* The arithmetic of the two modes as a state machine: an operator and two *)
(* literal operands are at hand, and the analyzer types the operation, the *)
(* interpreter applies it, and the IR generator folds it, in any order.    *)
(***************************************************************************)
MaxOperand == 2

BinaryOperators ==
    {"Add", "Subtract", "Multiply", "Divide", "Modulo", "Equal", "NotEqual", "Less",
     "Greater", "LessEqual", "GreaterEqual", "And", "Or"}

\* the Ints -MaxOperand..MaxOperand, then the Floats k/2 of the same range
Operands ==
    [i \in 1..(2 * MaxOperand + 1) |-> IntV(i - MaxOperand - 1)]
    \o [i \in 1..(4 * MaxOperand + 1) |-> MkFloat(i - 2 * MaxOperand - 1, 2)]

ArithInit ==
    /\ InterpNew
    /\ CallIdle
    /\ sem = SemanticAnalyzerNew
    /\ sem_prog = None
    /\ sem_res = None
    /\ sem_op = "none"
    /\ sem_calls = 0
    /\ \E op \in BinaryOperators, l \in 1..Len(Operands), r \in 1..Len(Operands) :
          ar_in = [op |-> op, left |-> Operands[l], right |-> Operands[r]]
    /\ ar_out = [typed |-> None, applied |-> None, folded |-> None]

\* analyze_expression on `left op right`
AnalyzeBinary ==
    /\ ~ar_out.typed.some
    /\ ar_out' = [ar_out EXCEPT !.typed =
                     Some(WithIt(analyze_expression(sem, Bin(ar_in.op, Lit(ar_in.left),
                                                             Lit(ar_in.right))), <<>>))]
    /\ UNCHANGED <<ar_in, interp_vars, sem_vars, call_vars>>

\* Interpreter::apply_binary_op
ApplyBinaryOp ==
    /\ ~ar_out.applied.some
    /\ ar_out' = [ar_out EXCEPT !.applied =
                     Some(apply_binary_op(ar_in.op, ar_in.left, ar_in.right))]
    /\ UNCHANGED <<ar_in, interp_vars, sem_vars, call_vars>>

\* IRGenerator::fold_constants
FoldConstants ==
    /\ ~ar_out.folded.some
    /\ ar_out' = [ar_out EXCEPT !.folded =
                     Some(fold_constants(ar_in.left, ar_in.op, ar_in.right))]
    /\ UNCHANGED <<ar_in, interp_vars, sem_vars, call_vars>>

ArithNext == AnalyzeBinary \/ ApplyBinaryOp \/ FoldConstants

SpecArith == ArithInit /\ [][ArithNext]_vars

(***************************************************************************)
(* Properties of the arithmetic, checked under SpecArith.                  *)
(***************************************************************************)
\* C10: for +, -, *, / on one Int and one Float operand, the analyzer gives
\* the type Float, and apply_binary_op and fold_constants both give the Float
\* of the float operation on the operands with the Int promoted.
C10_PromotionAgrees ==
    ( /\ ar_in.op \in {"Add", "Subtract", "Multiply", "Divide"}
      /\ {ar_in.left.t, ar_in.right.t} = {"Int", "Float"} )
    => LET a == IF ar_in.left.t = "Int" THEN MkFloat(ar_in.left.v, 1) ELSE ar_in.left
           b == IF ar_in.right.t = "Int" THEN MkFloat(ar_in.right.v, 1) ELSE ar_in.right
           expected == CASE ar_in.op = "Add" -> FloatAdd(a, b)
                         [] ar_in.op = "Subtract" -> FloatSub(a, b)
                         [] ar_in.op = "Multiply" -> FloatMul(a, b)
                         [] ar_in.op = "Divide" -> FloatDiv(a, b)
       IN /\ ar_out.typed.some
               => (ar_out.typed.v.ok /\ ar_out.typed.v.val = TFloat)
          /\ ar_out.applied.some
               => (ar_out.applied.v.ok /\ ar_out.applied.v.val = expected)
          /\ ar_out.folded.some
               => (ar_out.folded.v.some /\ ar_out.folded.v.v = expected)
(***************************************************************************)
(* String interpolation run on its own: a string literal over TextChars,   *)
(* in the body of a function that has declared x or has not.               *)
(***************************************************************************)
MaxText == 5

TextChars == <<"x", "{", "}">>

Texts == UNION {[1..n -> {TextChars[i] : i \in 1..Len(TextChars)}] : n \in 0..MaxText}

\* `var x: int = 7;`
DeclSeven == VarDecl("x", TInt, Some(Lit(IntV(7))), FALSE)

\* the interpreter inside a function body, after the declaration of x if there is one
InBody(bound) ==
    LET it == [Interp EXCEPT !.locals = Append(@, EmptyMap)]
    IN IF bound THEN self_execute_statement(it, DeclSeven).it ELSE it

TextInit ==
    /\ InterpNew
    /\ SemIdle
    /\ ArithIdle
    /\ \E s \in Texts, bound \in BOOLEAN : call_in = [s |-> s, bound |-> bound]
    /\ call_out = None

\* interpolate_string(s)
InterpolateString ==
    /\ call_out = None
    /\ LET r == self_interpolate_string(InBody(call_in.bound), call_in.s)
       IN call_out' = [op |-> "interpolate_string", ok |-> r.ok,
                       text |-> IF r.ok THEN r.val ELSE <<>>, printed |-> <<>>]
    /\ UNCHANGED <<call_in, interp_vars, sem_vars, ar_vars>>

\* the statement `con.out("s");`
PrintLiteral ==
    /\ call_out = None
    /\ LET r == self_execute_statement(InBody(call_in.bound), ConOut(Lit(StrV(call_in.s))))
       IN /\ call_out' = [op |-> "con.out", ok |-> r.ok, text |-> <<>>, printed |-> r.it.out]
          /\ SetInterp(r.it)
    /\ UNCHANGED <<call_in, pc, result, last, pre, steps, sem_vars, ar_vars>>

TextNext ==
    \/ InterpolateString
    \/ PrintLiteral

SpecText == TextInit /\ [][TextNext]_vars

Printed == call_out # None /\ call_out.op = "con.out"

Interpolated == call_out # None /\ call_out.op = "interpolate_string"

\* C11: con.out of the literal "{{x}}" prints exactly {x}, whether or not a
\* variable x is bound
C11_EscapedBracesPrintLiterally ==
    (Printed /\ call_in.s = <<"{", "{", "x", "}", "}">>)
        => (call_out.ok /\ call_out.printed = <<<<"{", "x", "}">>>>)

HasOpen(s) == \E i \in 1..Len(s) : s[i] = "{"

HasClosePair(s) == \E i \in 1..Len(s) - 1 : s[i] = "}" /\ s[i + 1] = "}"

\* C12 as stated: on every string without `{`, interpolate_string returns the
\* string unchanged
C12_NoOpenBraceUnchanged ==
    (Interpolated /\ ~HasOpen(call_in.s))
        => (call_out.ok /\ call_out.text = call_in.s)

\* C12 amended: on every string without `{` and without two adjacent `}`,
\* interpolate_string returns the string unchanged
C12_NoBraceSyntaxUnchanged ==
    (Interpolated /\ ~HasOpen(call_in.s) /\ ~HasClosePair(call_in.s))
        => (call_out.ok /\ call_out.text = call_in.s)

C12_Witness ==
    /\ Interpolated
    /\ call_in.s = <<"x", "}", "x">>
    /\ call_in.bound
    /\ call_out.text = <<"x", "}", "x">>
(***************************************************************************)
(* A program that imports a module and calls a function of it, handed to   *)
(* the analyzer and to the interpreter.                                    *)
(***************************************************************************)
MaxArg == 2

\* the paths an import statement names
ImportPaths == <<<<"f", "o", "o">>, <<"f", "o", "o", ".", "r", "o", "n", "o">>, <<"l", "i", "b">>>>

\* argument expressions, each with the value it evaluates to
ImportArgs ==
    [i \in 1..(2 * MaxArg + 1) |-> [expr |-> Lit(IntV(i - MaxArg - 1)), value |-> i - MaxArg - 1]]
    \o [i \in 1..(2 * MaxArg + 1) |->
           [expr |-> Bin("Add", Lit(IntV(i - MaxArg - 1)), Lit(IntV(1))), value |-> i - MaxArg]]

\* `import "path" as alias; chif main() { var r: int = module.bar(arg); con.out(r); }`
ImportProgram(import, arg) ==
    <<ImportItem(import.path, import.alias),
      FunctionItem(Function("main", <<>>, None,
          <<VarDecl("r", TInt, Some(MCall(Id(ModuleName(import)), "bar", <<arg>>)), FALSE),
            ConOut(Id("r"))>>, TRUE))>>

ImportInit ==
    /\ InterpNew
    /\ ArithIdle
    /\ sem = SemanticAnalyzerNew
    /\ sem_res = None
    /\ sem_op = "none"
    /\ sem_calls = 0
    /\ \E p \in 1..Len(ImportPaths), a \in 1..Len(ImportArgs), alias \in {None, Some("f")} :
          /\ call_in = [import |-> [path |-> ImportPaths[p], alias |-> alias],
                        arg |-> ImportArgs[a]]
          /\ sem_prog = ImportProgram(call_in.import, call_in.arg.expr)
    /\ call_out = None

\* Interpreter::execute on the program
Execute ==
    /\ pc = "new"
    /\ LET r == execute(Interp, sem_prog)
       IN /\ SetInterp(r.it)
          /\ result' = Returned(r)
    /\ pc' = "done"
    /\ UNCHANGED <<last, pre, steps, sem_vars, ar_vars, call_vars>>

ImportNext ==
    \/ Analyze
    \/ CheckTypes
    \/ Execute

SpecImport == ImportInit /\ [][ImportNext]_vars

\* what the imported bar prints and returns for the argument n
BarPrints(n) == IF FilePath(call_in.import.path)[1] = "f" THEN <<to_string(IntV(n), hash_seed)>> ELSE <<>>

BarReturns(n) == IF FilePath(call_in.import.path)[1] = "f" THEN n + 1 ELSE n * 2

\* C13: with `import "foo" as f`, analysis accepts the call f.bar(arg) where
\* bar's declared return type is expected, and the interpreter runs bar's
\* body on the evaluated argument
C13_ImportedCallResolves ==
    call_in.import.alias = Some("f")
        => /\ Analyzed => sem_res.ok
           /\ pc = "done"
                 => /\ result.ok
                    /\ out = BarPrints(call_in.arg.value)
                               \o <<to_string(IntV(BarReturns(call_in.arg.value)), hash_seed)>>

\* the interpreter's half of C13 alone
ImportedCallRuns ==
    pc = "done"
        => /\ result.ok
           /\ out = BarPrints(call_in.arg.value)
                      \o <<to_string(IntV(BarReturns(call_in.arg.value)), hash_seed)>>
(***************************************************************************)
(* ir_gen.rs: the lowering of a function to Cranelift IR.  An IR value is  *)
(* kept as its type and the number the instruction computes when run (all  *)
(* of the model's integers fit in 32 bits, so no instruction wraps).  Of   *)
(* the instructions only the returns are recorded; `valid` tells whether   *)
(* every instruction emitted so far has operands of the types it requires. *)
(***************************************************************************)
IRError(variant, info) == [ir_err |-> variant, info |-> info]

IRValue(ty, val) == [ty |-> ty, val |-> val]

\* FunctionBuilder for a function body
\* the stack slots are kept as their sizes, laid one after another in the
\* frame; `memory` is what the stores emitted so far leave there when run,
\* by address, and `stale` is the 8-byte word that any other address holds
BuilderNew ==
    [variables |-> EmptyMap, returns |-> <<>>, valid |-> TRUE,
     slots |-> <<>>, memory |-> EmptyMap, stale |-> 0]

chif_type_to_cranelift(chif_type) ==
    CASE chif_type.k = "Float" -> "F64"
      [] chif_type.k = "Bool" -> "I8"
      [] OTHER -> "I64"

\* IRGenerator::declare_function: the signature declared for func
declare_function(func) ==
    LET main_returns == IF func.is_main THEN <<"I32">> ELSE <<>>
        params == IF func.is_main THEN <<>>
                  ELSE [i \in 1..Len(func.params) |->
                           chif_type_to_cranelift(func.params[i].param_type)]
        declared_returns ==
            IF func.return_type.some /\ func.return_type.v # TNil
            THEN <<chif_type_to_cranelift(func.return_type.v)>>
            ELSE <<>>
    IN [params |-> params, returns |-> main_returns \o declared_returns]

\* generate_literal, for Int, Float, Bool and Nil
generate_literal(g, value) ==
    CASE value.t = "Int" -> Ok(g, IRValue("I64", value.v))
      [] value.t = "Float" -> Ok(g, IRValue("F64", value))
      [] value.t = "Bool" -> Ok(g, IRValue("I8", IF value.v THEN 1 ELSE 0))
      [] value.t = "Nil" -> Ok(g, IRValue("I64", 0))
      [] OTHER -> Err(g, IRError("UnsupportedFeature", "literal not yet supported"))

RECURSIVE is_float_expression(_)
is_float_expression(expression) ==
    CASE expression.e = "Literal" -> expression.value.t = "Float"
      [] expression.e = "Binary" ->
             is_float_expression(expression.left) \/ is_float_expression(expression.right)
      [] OTHER -> FALSE

\* an instruction with two operands: the value it computes, and the builder
\* marked invalid if the operands are not both of the type the opcode takes
BinaryInst(g, float, result_ty, val, left, right) ==
    LET want == IF float THEN {"F64"} ELSE {"I8", "I32", "I64"}
        typed == left.ty \in want /\ right.ty = left.ty
    IN Ok([g EXCEPT !.valid = @ /\ typed],
          IRValue(IF result_ty = "" THEN left.ty ELSE result_ty, IF typed THEN val ELSE 0))

\* the value an instruction of a binary operator computes from its operands
BinaryValue(op, float, l, r) ==
    LET b(x) == IF x THEN 1 ELSE 0
    IN IF float
       THEN CASE op = "Add" -> FloatAdd(l, r)
              [] op = "Subtract" -> FloatSub(l, r)
              [] op = "Multiply" -> FloatMul(l, r)
              [] op = "Divide" -> FloatDiv(l, r)
              [] op = "Equal" -> b(~IsNaN(l) /\ l = r)
              [] op = "NotEqual" -> b(IsNaN(l) \/ IsNaN(r) \/ l # r)
              [] op = "Less" -> b(FloatLess(l, r))
              [] op = "Greater" -> b(FloatLess(r, l))
              [] op = "LessEqual" -> b(FloatLess(l, r) \/ (~IsNaN(l) /\ l = r))
              [] op = "GreaterEqual" -> b(FloatLess(r, l) \/ (~IsNaN(l) /\ l = r))
       ELSE CASE op = "Add" -> l + r
              [] op = "Subtract" -> l - r
              [] op = "Multiply" -> l * r
              \* sdiv by zero traps when run; the model's programs do not divide
              [] op = "Divide" -> IF r = 0 THEN 0 ELSE TruncDiv(l, r)
              [] op = "Equal" -> b(l = r)
              [] op = "NotEqual" -> b(l # r)
              [] op = "Less" -> b(l < r)
              [] op = "Greater" -> b(l > r)
              [] op = "LessEqual" -> b(l <= r)
              [] op = "GreaterEqual" -> b(l >= r)

\* the instruction of a binary operator on two generated operands
BinaryOperation(g, op, float, left, right) ==
    IF op \in {"Add", "Subtract", "Multiply", "Divide"}
    THEN BinaryInst(g, float, "", BinaryValue(op, float, left.val, right.val), left, right)
    ELSE IF op \in {"Equal", "NotEqual", "Less", "Greater", "LessEqual", "GreaterEqual"}
    THEN BinaryInst(g, float, "I8", BinaryValue(op, float, left.val, right.val), left, right)
    ELSE Err(g, IRError("UnsupportedFeature", "Binary operator not yet supported"))

\* the instruction of a unary operator on a generated operand
UnaryOperation(g, op, operand) ==
    IF op = "Minus"
    THEN BinaryInst(g, FALSE, "", 0 - operand.val, IRValue("I64", 0), operand)
    ELSE BinaryInst(g, FALSE, "", IF operand.val = 1 THEN 0 ELSE 1, operand, IRValue("I8", 1))

\* the generator's methods call one another through IRCall
RECURSIVE IRCall(_, _, _, _)

self_generate_expression_static(g, expression) ==
    IRCall(g, "generate_expression_static", expression, FALSE)

self_generate_statement_static(g, statement, is_main) ==
    IRCall(g, "generate_statement_static", statement, is_main)

self_generate_statements(g, statements, is_main) ==
    IRCall(g, "generate_statements", statements, is_main)

\* the binary operation once its left operand is generated
BinaryAfterLeft(left, expression, right) ==
    IF ~left.ok THEN left
    ELSE IF ~right.ok THEN right
    ELSE BinaryOperation(right.it, expression.operator,
                         is_float_expression(expression.left)
                             \/ is_float_expression(expression.right),
                         left.val, right.val)

create_sized_stack_slot(g, size) == [g EXCEPT !.slots = Append(@, size)]

\* the end of slot k, counted from the start of the frame's slots
RECURSIVE SlotEnd(_, _)
SlotEnd(slots, k) == IF k = 0 THEN 0 ELSE SlotEnd(slots, k - 1) + slots[k]

\* stack_addr of the latest slot, offset 0
stack_addr(g) == IRValue("I64", SlotEnd(g.slots, Len(g.slots) - 1))

\* store of value at ptr + offset
store(g, value, ptr, offset) ==
    [g EXCEPT !.memory = MapInsert(@, ptr.val + offset, value),
              !.valid = @ /\ ptr.ty = "I64"]

\* load.i64 from ptr + offset: the eight bytes there, of which a stored I8
\* is only the lowest
load_i64(g, ptr, offset) ==
    LET address == ptr.val + offset
        word == IF address \notin DOMAIN g.memory THEN g.stale
                ELSE IF g.memory[address].ty = "I8"
                THEN (g.stale \div 256) * 256 + g.memory[address].val
                ELSE g.memory[address].val
    IN Ok([g EXCEPT !.valid = @ /\ ptr.ty = "I64"], IRValue("I64", word))

\* the loop of generate_struct_instantiation from initializer node.i on
StoreField(field_value, node) ==
    IF ~field_value.ok THEN field_value
    ELSE IRCall(store(field_value.it, field_value.val, node.struct_ptr, (node.i - 1) * 8),
                "initialize_fields", [node EXCEPT !.i = @ + 1], FALSE)

initialize_fields(g, node) ==
    IF node.i > Len(node.fields) THEN Ok(g, node.struct_ptr)
    ELSE StoreField(self_generate_expression_static(g, node.fields[node.i][2]), node)

generate_struct_instantiation(g, struct_literal) ==
    LET total_size == Len(struct_literal.fields) * 8
        with_slot == create_sized_stack_slot(g, total_size)
    IN IRCall(with_slot, "initialize_fields",
              [fields |-> struct_literal.fields, i |-> 1, struct_ptr |-> stack_addr(with_slot)],
              FALSE)

\* generate_field_access once the object expression is generated
LoadField(struct_ptr, field) ==
    IF ~struct_ptr.ok THEN struct_ptr
    ELSE LET field_offset == CASE field = "x" -> Some(0)
                               [] field = "y" -> Some(8)
                               [] field = "width" -> Some(0)
                               [] field = "height" -> Some(8)
                               [] OTHER -> None
         IN IF ~field_offset.some
            THEN Err(struct_ptr.it, IRError("Generation", "Unknown field"))
            ELSE load_i64(struct_ptr.it, struct_ptr.val, field_offset.v)

generate_field_access(g, field_access) ==
    LoadField(self_generate_expression_static(g, field_access.object), field_access.field)

\* generate_expression_static, for literals, identifiers, binary and unary
\* operations, struct literals and field accesses
generate_expression_static(g, expression) ==
    CASE expression.e = "Literal" -> generate_literal(g, expression.value)
      [] expression.e = "StructLiteral" -> generate_struct_instantiation(g, expression)
      [] expression.e = "FieldAccess" -> generate_field_access(g, expression)
      [] expression.e = "Identifier" ->
            IF expression.name \in DOMAIN g.variables
            THEN Ok(g, g.variables[expression.name])
            ELSE Err(g, IRError("Generation", "Undefined variable"))
      [] expression.e = "Binary" ->
            LET folded == IF expression.left.e = "Literal" /\ expression.right.e = "Literal"
                          THEN fold_constants(expression.left.value, expression.operator,
                                              expression.right.value)
                          ELSE None
                left == self_generate_expression_static(g, expression.left)
            IN IF folded.some THEN generate_literal(g, folded.v)
               ELSE BinaryAfterLeft(left, expression,
                                    self_generate_expression_static(left.it, expression.right))
      [] expression.e = "Unary" ->
            LET operand == self_generate_expression_static(g, expression.operand)
            IN IF ~operand.ok THEN operand
               ELSE UnaryOperation(operand.it, expression.operator, operand.val)
      [] OTHER -> Err(g, IRError("UnsupportedFeature", "expression not modelled"))

\* ireduce.i32: the low 32 bits of an integer value of a wider type
ireduce_i32(g, value) ==
    Ok([g EXCEPT !.valid = @ /\ value.ty = "I64"], IRValue("I32", value.val))

\* return_ with the given values
return_(g, values) == [g EXCEPT !.returns = Append(@, values)]

\* the steps of generate_statement_static once the expression of
\* the statement is generated
DeclareVariable(g, statement, cranelift_type, init_value) ==
    IF ~init_value.ok THEN init_value
    ELSE Ok([init_value.it EXCEPT
                !.variables = MapInsert(@, statement.name, init_value.val),
                !.valid = @ /\ init_value.val.ty = cranelift_type], NilV)

AssignVariable(g, var_name, value) ==
    IF ~value.ok THEN value
    ELSE IF var_name \notin DOMAIN g.variables
    THEN Err(value.it, IRError("Generation", "Undefined variable"))
    ELSE Ok([value.it EXCEPT
                !.variables = MapInsert(@, var_name, value.val),
                !.valid = @ /\ value.val.ty = g.variables[var_name].ty], NilV)

ReturnValue(return_value, is_main) ==
    IF ~return_value.ok THEN return_value
    ELSE IF is_main
    THEN LET return_i32 == ireduce_i32(return_value.it, return_value.val)
         IN Ok(return_(return_i32.it, <<return_i32.val>>), NilV)
    ELSE Ok(return_(return_value.it, <<return_value.val>>), NilV)

Discard(r) == IF ~r.ok THEN r ELSE Ok(r.it, NilV)

\* generate_statement_static, for declarations, assignments to variables,
\* returns and expression statements
generate_statement_static(g, statement, is_main) ==
    CASE statement.s = "VarDecl" ->
            LET cranelift_type == chif_type_to_cranelift(statement.var_type)
            IN DeclareVariable(g, statement, cranelift_type,
                               IF statement.value.some
                               THEN self_generate_expression_static(g, statement.value.v)
                               ELSE Ok(g, IRValue(cranelift_type,
                                                  IF cranelift_type = "F64" THEN FloatV(0, 1)
                                                  ELSE 0)))
      [] statement.s = "Assignment" ->
            IF statement.target.e # "Identifier"
            THEN Err(g, IRError("UnsupportedFeature", "Complex assignment targets not yet supported"))
            ELSE AssignVariable(g, statement.target.name,
                                self_generate_expression_static(g, statement.value))
      [] statement.s = "Return" ->
            IF statement.expr.some
            THEN ReturnValue(self_generate_expression_static(g, statement.expr.v), is_main)
            ELSE IF is_main THEN Ok(return_(g, <<IRValue("I32", 0)>>), NilV)
            ELSE Ok(return_(g, <<>>), NilV)
      [] statement.s = "Expression" ->
            Discard(self_generate_expression_static(g, statement.expr))
      [] OTHER -> Err(g, IRError("UnsupportedFeature", "statement not modelled"))

\* block_ends_with_return, for blocks without if statements
block_ends_with_return(block) == \E i \in 1..Len(block) : block[i].s = "Return"

\* the loop of generate_function over the statements of the body
generate_statements(g, statements, is_main) ==
    IF statements = <<>> THEN Ok(g, NilV)
    ELSE LET r == self_generate_statement_static(g, Head(statements), is_main)
         IN IF ~r.ok THEN r ELSE self_generate_statements(r.it, Tail(statements), is_main)

IRCall(g, method, node, is_main) ==
    CASE method = "generate_expression_static" -> generate_expression_static(g, node)
      [] method = "generate_statement_static" -> generate_statement_static(g, node, is_main)
      [] method = "generate_statements" -> generate_statements(g, node, is_main)
      [] method = "initialize_fields" -> initialize_fields(g, node)

\* Module::define_function: the function verifies if every instruction has
\* operands of the types it requires and every return gives the values of
\* the signature
define_function(sig, g) ==
    /\ g.valid
    /\ \A i \in 1..Len(g.returns) :
          [j \in 1..Len(g.returns[i]) |-> g.returns[i][j].ty] = sig.returns

\* IRGenerator::generate_function, for functions without parameters
generate_function(func, sig) ==
    LET has_return == block_ends_with_return(func.body)
        body == self_generate_statements(BuilderNew, func.body, func.is_main)
        g == IF has_return THEN body.it
             ELSE IF func.is_main THEN return_(body.it, <<IRValue("I32", 0)>>)
             ELSE return_(body.it, <<>>)
    IN IF ~body.ok THEN body
       ELSE IF ~has_return /\ ~func.is_main /\ func.return_type.some /\ func.return_type.v # TNil
       THEN Err(body.it, IRError("Generation", "Function missing return statement"))
       ELSE IF ~define_function(sig, g) THEN Err(g, IRError("Module", "verifier errors"))
       ELSE Ok(g, NilV)

(***************************************************************************)
(* The lowering of one function as a state machine: declare_function,      *)
(* then generate_function.  The body is a run of declarations and          *)
(* expression statements, ended by a return or by nothing.                 *)
(***************************************************************************)
MaxPrefix == 2

\* `2 + 3 * 4`
TwoPlusThreeTimesFour ==
    Bin("Add", Lit(IntV(2)), Bin("Multiply", Lit(IntV(3)), Lit(IntV(4))))

LowerPrefix ==
    <<VarDecl("x", TInt, Some(Lit(IntV(5))), TRUE),
      VarDecl("y", TInt, Some(Bin("Subtract", Lit(IntV(1)), Lit(IntV(3)))), TRUE),
      ExprS(Lit(IntV(1)))>>

\* the ends of a body: a return, each with the status it stands for, or nothing
LowerEnds ==
    <<[stmts |-> <<>>, status |-> 0],
      [stmts |-> <<ReturnS(None)>>, status |-> 0],
      [stmts |-> <<ReturnS(Some(TwoPlusThreeTimesFour))>>, status |-> 14],
      [stmts |-> <<ReturnS(Some(Lit(IntV(7))))>>, status |-> 7],
      [stmts |-> <<ReturnS(Some(Bin("Multiply", Lit(IntV(-1)), Lit(IntV(3)))))>>, status |-> -3]>>

LowerReturnTypes == <<None, Some(TNil), Some(TInt)>>

LowerInit ==
    /\ InterpNew
    /\ SemIdle
    /\ ArithIdle
    /\ \E rt \in 1..Len(LowerReturnTypes), end \in 1..Len(LowerEnds), is_main \in BOOLEAN,
          picks \in UNION {[1..n -> 1..Len(LowerPrefix)] : n \in 0..MaxPrefix} :
          call_in = [func |-> Function(IF is_main THEN "main" ELSE "f", <<>>,
                                       LowerReturnTypes[rt],
                                       [i \in 1..Len(picks) |-> LowerPrefix[picks[i]]]
                                           \o LowerEnds[end].stmts,
                                       is_main),
                     status |-> LowerEnds[end].status]
    /\ call_out = None

\* the fourth pass of generate on the function
DeclareFunction ==
    /\ call_out = None
    /\ call_out' = [stage |-> "declared", signature |-> declare_function(call_in.func),
                    ok |-> FALSE, returns |-> <<>>]
    /\ UNCHANGED <<call_in, interp_vars, sem_vars, ar_vars>>

\* the fifth pass of generate on the function
GenerateFunction ==
    /\ call_out # None
    /\ call_out.stage = "declared"
    /\ LET r == generate_function(call_in.func, call_out.signature)
       IN call_out' = [call_out EXCEPT !.stage = "generated", !.ok = r.ok,
                                       !.returns = r.it.returns]
    /\ UNCHANGED <<call_in, interp_vars, sem_vars, ar_vars>>

LowerNext ==
    \/ DeclareFunction
    \/ GenerateFunction

SpecLower == LowerInit /\ [][LowerNext]_vars

Declared == call_out # None

Generated == call_out # None /\ call_out.stage = "generated"

\* C14: the signature declared for main has exactly one return value, of
\* type I32, whether or not main declares a return type; every return
\* emitted in main returns exactly one I32 value, the returned expression or
\* zero; and the compiled main then exits with that value (14 for 2 + 3 * 4)
C14_MainReturnsOneI32 ==
    (Declared /\ call_in.func.is_main)
        => /\ call_out.signature.returns = <<"I32">>
           /\ Generated
                 => /\ call_out.ok
                    /\ \A i \in 1..Len(call_out.returns) :
                          call_out.returns[i] = <<IRValue("I32", call_in.status)>>

\* the part of C14 about the returns alone
MainReturnsAreOneI32 ==
    (Generated /\ call_in.func.is_main)
        => \A i \in 1..Len(call_out.returns) :
              call_out.returns[i] = <<IRValue("I32", call_in.status)>>

(***************************************************************************)
(* parser.rs: the expression parser.  A parser is the token vector and the *)
(* index of the current token; a parsing method returns the parser it      *)
(* leaves behind and the expression, or the error.  Tokens are lexer.rs    *)
(* Token; the literals of array, map and struct expressions in             *)
(* parse_primary need brace tokens, which the token vectors here lack.     *)
(***************************************************************************)
Tok(t) == [t |-> t]

TokIdentifier(name) == [t |-> "Identifier", v |-> name]

TokIntLiteral(n) == [t |-> "IntLiteral", v |-> n]

Un(op, x) == [e |-> "Unary", operator |-> op, operand |-> x]

IndexAccess(obj, indices) == [e |-> "Index", object |-> obj, indices |-> indices]

ParserError(message) == ChifError("ParserError", message)

ParserNew(tokens) == [tokens |-> tokens, current |-> 0]

peek(p) == p.tokens[p.current + 1]

is_at_end(p) == peek(p).t = "Eof"

check(p, token) == peek(p).t = token

\* the parser after advance(); advance returns previous() of it
advance(p) == IF ~is_at_end(p) THEN [p EXCEPT !.current = @ + 1] ELSE p

previous(p) == p.tokens[p.current]

match_token(p, token) ==
    IF check(p, token) THEN [it |-> advance(p), matched |-> TRUE]
    ELSE [it |-> p, matched |-> FALSE]

consume(p, token, message) ==
    IF check(p, token) THEN Ok(advance(p), previous(advance(p)))
    ELSE Err(p, ParserError(message))

\* the four operator matchers: the binary operator of the current token at
\* that level, consumed, or nothing
MatchOp(p, ops) ==
    IF peek(p).t \in DOMAIN ops THEN [it |-> advance(p), op |-> Some(ops[peek(p).t])]
    ELSE [it |-> p, op |-> None]

match_equality_op(p) ==
    MatchOp(p, [t \in {"Equal", "NotEqual"} |-> t])

match_comparison_op(p) ==
    MatchOp(p, [t \in {"Less", "Greater", "LessEqual", "GreaterEqual"} |-> t])

match_term_op(p) ==
    MatchOp(p, [t \in {"Plus", "Minus"} |-> IF t = "Plus" THEN "Add" ELSE "Subtract"])

match_factor_op(p) ==
    MatchOp(p, [t \in {"Multiply", "Divide", "Modulo"} |-> t])

match_unary_op(p) ==
    MatchOp(p, [t \in {"Not", "Minus"} |-> t])

RECURSIVE ParserCall(_, _)
RECURSIVE or_while(_, _), and_while(_, _), equality_while(_, _), comparison_while(_, _)
RECURSIVE term_while(_, _), factor_while(_, _), postfix_loop(_, _)
RECURSIVE arguments_loop(_, _), indices_while(_, _)

self_parse_expression(p) == ParserCall(p, "parse_expression")

self_parse_or(p) == ParserCall(p, "parse_or")

self_parse_and(p) == ParserCall(p, "parse_and")

self_parse_equality(p) == ParserCall(p, "parse_equality")

self_parse_comparison(p) == ParserCall(p, "parse_comparison")

self_parse_term(p) == ParserCall(p, "parse_term")

self_parse_factor(p) == ParserCall(p, "parse_factor")

self_parse_unary(p) == ParserCall(p, "parse_unary")

self_parse_postfix(p) == ParserCall(p, "parse_postfix")

self_parse_primary(p) == ParserCall(p, "parse_primary")

\* while self.match_token(&Token::Or) { ... } in parse_or
or_while(p, expr) ==
    LET m == match_token(p, "Or")
        right == self_parse_and(m.it)
    IN IF ~m.matched THEN Ok(p, expr)
       ELSE IF ~right.ok THEN right
       ELSE or_while(right.it, Bin("Or", expr, right.val))

parse_or(p) ==
    LET expr == self_parse_and(p)
    IN IF ~expr.ok THEN expr ELSE or_while(expr.it, expr.val)

and_while(p, expr) ==
    LET m == match_token(p, "And")
        right == self_parse_equality(m.it)
    IN IF ~m.matched THEN Ok(p, expr)
       ELSE IF ~right.ok THEN right
       ELSE and_while(right.it, Bin("And", expr, right.val))

parse_and(p) ==
    LET expr == self_parse_equality(p)
    IN IF ~expr.ok THEN expr ELSE and_while(expr.it, expr.val)

equality_while(p, expr) ==
    LET m == match_equality_op(p)
        right == self_parse_comparison(m.it)
    IN IF ~m.op.some THEN Ok(p, expr)
       ELSE IF ~right.ok THEN right
       ELSE equality_while(right.it, Bin(m.op.v, expr, right.val))

parse_equality(p) ==
    LET expr == self_parse_comparison(p)
    IN IF ~expr.ok THEN expr ELSE equality_while(expr.it, expr.val)

comparison_while(p, expr) ==
    LET m == match_comparison_op(p)
        right == self_parse_term(m.it)
    IN IF ~m.op.some THEN Ok(p, expr)
       ELSE IF ~right.ok THEN right
       ELSE comparison_while(right.it, Bin(m.op.v, expr, right.val))

parse_comparison(p) ==
    LET expr == self_parse_term(p)
    IN IF ~expr.ok THEN expr ELSE comparison_while(expr.it, expr.val)

term_while(p, expr) ==
    LET m == match_term_op(p)
        right == self_parse_factor(m.it)
    IN IF ~m.op.some THEN Ok(p, expr)
       ELSE IF ~right.ok THEN right
       ELSE term_while(right.it, Bin(m.op.v, expr, right.val))

\* a term whose operators group to the right
ParseTermRightAssociative(p) ==
    LET expr == self_parse_factor(p)
        m == match_term_op(expr.it)
        right == self_parse_term(m.it)
    IN IF ~expr.ok THEN expr
       ELSE IF ~m.op.some THEN expr
       ELSE IF ~right.ok THEN right
       ELSE Ok(right.it, Bin(m.op.v, expr.val, right.val))

parse_term(p) ==
    LET expr == self_parse_factor(p)
    IN IF ~expr.ok THEN expr ELSE term_while(expr.it, expr.val)

factor_while(p, expr) ==
    LET m == match_factor_op(p)
        right == self_parse_unary(m.it)
    IN IF ~m.op.some THEN Ok(p, expr)
       ELSE IF ~right.ok THEN right
       ELSE factor_while(right.it, Bin(m.op.v, expr, right.val))

parse_factor(p) ==
    LET expr == self_parse_unary(p)
    IN IF ~expr.ok THEN expr ELSE factor_while(expr.it, expr.val)

parse_unary(p) ==
    LET m == match_unary_op(p)
        wrap(q, make(_)) == LET operand == self_parse_unary(q)
                            IN IF ~operand.ok THEN operand
                               ELSE Ok(operand.it, make(operand.val))
    IN IF m.op.some THEN wrap(m.it, LAMBDA x : Un(m.op.v, x))
       ELSE IF check(p, "Reference") THEN wrap(advance(p), LAMBDA x : Ref(x))
       ELSE IF check(p, "Multiply") THEN wrap(advance(p), LAMBDA x : Deref(x))
       ELSE self_parse_postfix(p)

\* loop { args.push(self.parse_expression()?); if !match Comma { break } }
arguments_loop(p, args) ==
    LET arg == self_parse_expression(p)
        m == match_token(arg.it, "Comma")
    IN IF ~arg.ok THEN arg
       ELSE IF m.matched THEN arguments_loop(m.it, Append(args, arg.val))
       ELSE Ok(arg.it, Append(args, arg.val))

\* the arguments after an opening parenthesis, and the closing one
Arguments(p, message) ==
    LET args == IF ~check(p, "RightParen") THEN arguments_loop(p, <<>>) ELSE Ok(p, <<>>)
        close == consume(args.it, "RightParen", message)
    IN IF ~args.ok THEN args
       ELSE IF ~close.ok THEN close
       ELSE Ok(close.it, args.val)

\* one index expression and its closing bracket, then every further [ ... ]
indices_while(p, indices) ==
    LET index == self_parse_expression(p)
        close == consume(index.it, "RightBracket", "Expected ']' after index")
        m == match_token(close.it, "LeftBracket")
    IN IF ~index.ok THEN index
       ELSE IF ~close.ok THEN close
       ELSE IF m.matched THEN indices_while(m.it, Append(indices, index.val))
       ELSE Ok(close.it, Append(indices, index.val))

postfix_loop(p, expr) ==
    IF check(p, "LeftParen")
    THEN LET args == Arguments(advance(p), "Expected ')' after function arguments")
         IN IF ~args.ok THEN args
            ELSE IF expr.e = "Identifier"
            THEN postfix_loop(args.it, Call(expr.name, args.val))
            ELSE Err(args.it, ParserError("Invalid function call"))
    ELSE IF check(p, "LeftBracket")
    THEN LET indices == indices_while(advance(p), <<>>)
         IN IF ~indices.ok THEN indices
            ELSE postfix_loop(indices.it, IndexAccess(expr, indices.val))
    ELSE IF check(p, "Dot")
    THEN LET named == advance(advance(p))
             field_name == previous(named)
             m == match_token(named, "LeftParen")
             args == Arguments(m.it, "Expected ')' after method arguments")
         IN IF field_name.t # "Identifier"
            THEN Err(named, ParserError("Expected field or method name after '.'"))
            ELSE IF ~m.matched THEN postfix_loop(named, Field(expr, field_name.v))
            ELSE IF ~args.ok THEN args
            ELSE postfix_loop(args.it, MCall(expr, field_name.v, args.val))
    ELSE Ok(p, expr)

parse_postfix(p) ==
    LET expr == self_parse_primary(p)
    IN IF ~expr.ok THEN expr ELSE postfix_loop(expr.it, expr.val)

parse_primary(p) ==
    LET q == advance(p)
        token == previous(q)
    IN CASE token.t = "IntLiteral" -> Ok(q, Lit(IntV(token.v)))
         [] token.t = "BoolLiteral" -> Ok(q, Lit(BoolV(token.v)))
         [] token.t = "Nil" -> Ok(q, Lit(NilV))
         [] token.t = "Identifier" -> Ok(q, Id(token.v))
         [] token.t = "LeftParen" ->
               LET expr == self_parse_expression(q)
                   close == consume(expr.it, "RightParen", "Expected ')' after expression")
               IN IF ~expr.ok THEN expr
                  ELSE IF ~close.ok THEN close
                  ELSE Ok(close.it, expr.val)
         [] OTHER -> Err(q, ParserError("Unexpected token"))

parse_expression(p) == self_parse_or(p)

ParserCall(p, method) ==
    CASE method = "parse_expression" -> parse_expression(p)
      [] method = "parse_or" -> parse_or(p)
      [] method = "parse_and" -> parse_and(p)
      [] method = "parse_equality" -> parse_equality(p)
      [] method = "parse_comparison" -> parse_comparison(p)
      [] method = "parse_term" -> parse_term(p)
      [] method = "parse_factor" -> parse_factor(p)
      [] method = "parse_unary" -> parse_unary(p)
      [] method = "parse_postfix" -> parse_postfix(p)
      [] method = "parse_primary" -> parse_primary(p)

(***************************************************************************)
(* Parsing as a state machine: Parser::new on a token vector, then         *)
(* parse_expression.  The vector is operands joined by binary operators:   *)
(* integer literals, or names of which one may carry a unary operator, a   *)
(* field access or both.                                                   *)
(***************************************************************************)
MaxOperands == 3

\* the binary operator tokens with the operator each stands for and the
\* level of the grammar it belongs to, loosest first
BinaryTokens ==
    <<[t |-> "Or", op |-> "Or", level |-> 1],
      [t |-> "And", op |-> "And", level |-> 2],
      [t |-> "Equal", op |-> "Equal", level |-> 3],
      [t |-> "NotEqual", op |-> "NotEqual", level |-> 3],
      [t |-> "Less", op |-> "Less", level |-> 4],
      [t |-> "Greater", op |-> "Greater", level |-> 4],
      [t |-> "LessEqual", op |-> "LessEqual", level |-> 4],
      [t |-> "GreaterEqual", op |-> "GreaterEqual", level |-> 4],
      [t |-> "Plus", op |-> "Add", level |-> 5],
      [t |-> "Minus", op |-> "Subtract", level |-> 5],
      [t |-> "Multiply", op |-> "Multiply", level |-> 6],
      [t |-> "Divide", op |-> "Divide", level |-> 6],
      [t |-> "Modulo", op |-> "Modulo", level |-> 6]>>

OperandNames == <<"a", "b", "c", "d", "e">>

\* the i-th operand, as tokens and as the expression it is to be read as
PlainOperand(i, literal) ==
    IF literal THEN [tokens |-> <<TokIntLiteral(i)>>, expr |-> Lit(IntV(i))]
    ELSE [tokens |-> <<TokIdentifier(OperandNames[i])>>, expr |-> Id(OperandNames[i])]

\* -x, !x, x.b, -x.b and !x.b
Decorations ==
    <<[unary |-> Some("Minus"), field |-> FALSE],
      [unary |-> Some("Not"), field |-> FALSE],
      [unary |-> None, field |-> TRUE],
      [unary |-> Some("Minus"), field |-> TRUE],
      [unary |-> Some("Not"), field |-> TRUE]>>

Decorated(operand, decoration) ==
    LET with_field == IF decoration.field
                      THEN [tokens |-> operand.tokens \o <<Tok("Dot"), TokIdentifier("b")>>,
                            expr |-> Field(operand.expr, "b")]
                      ELSE operand
    IN IF decoration.unary.some
       THEN [tokens |-> <<Tok(decoration.unary.v)>> \o with_field.tokens,
             expr |-> Un(decoration.unary.v, with_field.expr)]
       ELSE with_field

RECURSIVE Flatten(_)
Flatten(seqs) == IF seqs = <<>> THEN <<>> ELSE Head(seqs) \o Flatten(Tail(seqs))

ParseInit ==
    /\ InterpNew
    /\ SemIdle
    /\ ArithIdle
    /\ \E n \in 1..MaxOperands, literal \in BOOLEAN :
       \E ops \in [1..(n - 1) -> 1..Len(BinaryTokens)], at \in 0..n,
          decoration \in 1..Len(Decorations) :
          /\ at = 0 => decoration = 1
          /\ literal => at = 0
          /\ LET operands == [i \in 1..n |->
                                 IF i = at THEN Decorated(PlainOperand(i, literal),
                                                          Decorations[decoration])
                                 ELSE PlainOperand(i, literal)]
                 pieces == [i \in 1..n |->
                               IF i = 1 THEN operands[i].tokens
                               ELSE <<Tok(BinaryTokens[ops[i - 1]].t)>> \o operands[i].tokens]
             IN call_in = [tokens |-> Flatten(pieces) \o <<Tok("Eof")>>,
                           operands |-> [i \in 1..n |-> operands[i].expr],
                           operators |-> [i \in 1..(n - 1) |-> BinaryTokens[ops[i]]]]
    /\ call_out = None

\* Parser::new(tokens).parse_expression()
ParseExpression ==
    /\ call_out = None
    /\ LET r == parse_expression(ParserNew(call_in.tokens))
       IN call_out' = [ok |-> r.ok, expr |-> IF r.ok THEN r.val ELSE NilV,
                       rest |-> peek(r.it).t]
    /\ UNCHANGED <<call_in, interp_vars, sem_vars, ar_vars>>

ParseNext == ParseExpression

SpecParse == ParseInit /\ [][ParseNext]_vars

Parsed == call_out # None

\* the grouping that precedence and left associativity give operands
\* lo..hi: split at the last of the loosest operators between them
RECURSIVE Grouped(_, _)
Grouped(lo, hi) ==
    IF lo = hi THEN call_in.operands[lo]
    ELSE LET loosest == CHOOSE k \in lo..(hi - 1) :
                            \A j \in lo..(hi - 1) :
                               \/ call_in.operators[k].level < call_in.operators[j].level
                               \/ call_in.operators[k].level = call_in.operators[j].level
                                  /\ j <= k
         IN Bin(call_in.operators[loosest].op, Grouped(lo, loosest), Grouped(loosest + 1, hi))

\* the token vector read is these tokens and the end of file
Reads(tokens) ==
    /\ Len(call_in.tokens) = Len(tokens) + 1
    /\ \A i \in 1..Len(tokens) :
          /\ call_in.tokens[i].t = tokens[i].t
          /\ tokens[i].t \in {"Identifier", "IntLiteral"} => call_in.tokens[i].v = tokens[i].v

\* C15: postfix binds tighter than unary, then multiplicative, additive,
\* comparison, equality, && and ||, and every binary operator groups to
\* the left: 1 + 2 * 3 is 1 + (2 * 3), a == b && c is (a == b) && c, -a.b
\* is the negation of a.b, and a - b - c is (a - b) - c
C15_PrecedenceAndAssociativity ==
    Parsed =>
        /\ call_out.ok
        /\ call_out.rest = "Eof"
        /\ call_out.expr = Grouped(1, Len(call_in.operands))
        /\ Reads(<<TokIntLiteral(1), Tok("Plus"), TokIntLiteral(2),
                                     Tok("Multiply"), TokIntLiteral(3)>>)
              => call_out.expr = Bin("Add", Lit(IntV(1)),
                                     Bin("Multiply", Lit(IntV(2)), Lit(IntV(3))))
        /\ Reads(<<TokIdentifier("a"), Tok("Equal"), TokIdentifier("b"),
                                     Tok("And"), TokIdentifier("c")>>)
              => call_out.expr = Bin("And", Bin("Equal", Id("a"), Id("b")), Id("c"))
        /\ Reads(<<Tok("Minus"), TokIdentifier("a"), Tok("Dot"),
                                     TokIdentifier("b")>>)
              => call_out.expr = Un("Minus", Field(Id("a"), "b"))
        /\ Reads(<<TokIdentifier("a"), Tok("Minus"), TokIdentifier("b"),
                                     Tok("Minus"), TokIdentifier("c")>>)
              => call_out.expr = Bin("Subtract", Bin("Subtract", Id("a"), Id("b")), Id("c"))

\* a - b - c has been parsed as (a - b) - c
C15_Witness ==
    /\ Parsed
    /\ Reads(<<TokIdentifier("a"), Tok("Minus"), TokIdentifier("b"),
                                 Tok("Minus"), TokIdentifier("c")>>)
    /\ call_out.expr = Bin("Subtract", Bin("Subtract", Id("a"), Id("b")), Id("c"))

(***************************************************************************)
(* Scopes of the interpreter.  main declares a and runs statements that    *)
(* call functions, assign and loop.  A for statement of main is run one    *)
(* step of Statement::For at a time, so that the scopes inside its body    *)
(* are states: `call_out` is the position in the loop, with idx the        *)
(* loop_scope_index; pc is "for" while main is inside the loop.  Every     *)
(* step but the first and the last runs one statement or evaluates one     *)
(* condition, and StepResult is what that returns.                         *)
(***************************************************************************)
MaxMain == 2

\* for (var i: int = 0; i < n; i = i + 1) body
ForUpTo(n, body) ==
    ForS(Some(VarDecl("i", TInt, Some(Lit(IntV(0))), TRUE)),
         Some(Bin("Less", Id("i"), Lit(IntV(n)))),
         Some(Assign(Id("i"), Bin("Add", Id("i"), Lit(IntV(1))))),
         body)

PPlusOne == Bin("Add", Id("p"), Lit(IntV(1)))

POf(ty) == <<Param("p", ty, FALSE)>>

\* p = *p + 1;
BumpP == Assign(Id("p"), Bin("Add", Deref(Id("p")), Lit(IntV(1))))

ScopeFunctions ==
    <<\* chif fall(p: int) { var t: int = p; }
      Function("fall", POf(TInt), None, <<VarDecl("t", TInt, Some(Id("p")), TRUE)>>, FALSE),
      \* chif early(p: int) int { ret p + 1; }
      Function("early", POf(TInt), Some(TInt), <<ReturnS(Some(PPlusOne))>>, FALSE),
      \* chif in_if(p: int) int { if (true) { ret p + 1; } ret 0; }
      Function("in_if", POf(TInt), Some(TInt),
               <<IfS(Lit(BoolV(TRUE)), <<ReturnS(Some(PPlusOne))>>, None),
                 ReturnS(Some(Lit(IntV(0))))>>, FALSE),
      \* chif in_for(p: int) int { for (...; i < 1; ...) { ret p + 1; } ret 0; }
      Function("in_for", POf(TInt), Some(TInt),
               <<ForUpTo(1, <<ReturnS(Some(PPlusOne))>>), ReturnS(Some(Lit(IntV(0))))>>, FALSE),
      \* chif looped(p: int) int { var t: int = 0; for (...; i < 1; ...) { t = p; } ret t + 1; }
      Function("looped", POf(TInt), Some(TInt),
               <<VarDecl("t", TInt, Some(Lit(IntV(0))), TRUE),
                 ForUpTo(1, <<Assign(Id("t"), Id("p"))>>),
                 ReturnS(Some(Bin("Add", Id("t"), Lit(IntV(1)))))>>, FALSE),
      \* chif peek() int { ret a; }
      Function("peek", <<>>, Some(TInt), <<ReturnS(Some(Id("a")))>>, FALSE),
      \* chif bump(p: *int) { p = *p + 1; }
      Function("bump", POf(TPointer(TInt)), None, <<BumpP>>, FALSE),
      \* chif bump_back(p: *int) { p = *p + 1; ret; }
      Function("bump_back", POf(TPointer(TInt)), None, <<BumpP, ReturnS(None)>>, FALSE),
      \* chif bump_quit(p: *int) { p = *p + 1; for (...; i < 1; ...) { ret; } }
      Function("bump_quit", POf(TPointer(TInt)), None,
               <<BumpP, ForUpTo(1, <<ReturnS(None)>>)>>, FALSE),
      \* chif keep(p: *int) { var t: int = 1; }
      Function("keep", POf(TPointer(TInt)), None,
               <<VarDecl("t", TInt, Some(Lit(IntV(1))), TRUE)>>, FALSE),
      \* chif stop(p: int) { break; }
      Function("stop", POf(TInt), None, <<BreakS>>, FALSE),
      \* chif skip(p: int) { continue; }
      Function("skip", POf(TInt), None, <<ContinueS>>, FALSE)>>

\* var a: int = 5;
DeclA == VarDecl("a", TInt, Some(Lit(IntV(5))), TRUE)

\* var r: int = name(a);
CallWithA(name) == VarDecl("r", TInt, Some(Call(name, <<Id("a")>>)), TRUE)

\* var r: int = peek();
CallPeek == VarDecl("r", TInt, Some(Call("peek", <<>>)), TRUE)

\* name(&a);
CallWithRefA(name) == ExprS(Call(name, <<Ref(Id("a"))>>))

AddToA(x) == Assign(Id("a"), Bin("Add", Id("a"), x))

\* the statements main runs after the declaration of a
ScopeStatements ==
    <<CallWithA("fall"), CallWithA("early"), CallWithA("in_if"), CallWithA("in_for"),
      CallWithA("looped"), CallPeek,
      CallWithRefA("bump"), CallWithRefA("bump_back"), CallWithRefA("bump_quit"),
      CallWithRefA("keep"),
      AddToA(Lit(IntV(1))),
      Assign(Id("b"), Lit(IntV(3))),
      ForUpTo(2, <<AddToA(Id("i")), VarDecl("c", TInt, Some(Id("i")), TRUE)>>),
      ForUpTo(2, <<Assign(Id("a"), Lit(IntV(9))), BreakS>>),
      ForUpTo(2, <<VarDecl("c", TInt, Some(Id("i")), TRUE), ContinueS>>),
      ForUpTo(1, <<CallWithA("early")>>),
      ForUpTo(1, <<CallWithA("in_for")>>),
      ForUpTo(2, <<CallWithA("stop"), AddToA(Lit(IntV(1)))>>),
      ForUpTo(2, <<CallWithA("skip"), AddToA(Lit(IntV(1)))>>),
      BreakS>>

ScopeItems(body) ==
    [i \in 1..Len(ScopeFunctions) |-> FunctionItem(ScopeFunctions[i])]
        \o <<FunctionItem(Function("main", <<>>, None, body, TRUE))>>

ScopeInit ==
    /\ InterpNew
    /\ SemIdle
    /\ ArithIdle
    /\ \E picks \in UNION {[1..n -> 1..Len(ScopeStatements)] : n \in 0..MaxMain} :
          call_in = [body |-> <<DeclA>> \o [i \in 1..Len(picks) |-> ScopeStatements[picks[i]]]]
    /\ call_out = None

\* self.locals.pop()
PopScope(it) == [it EXCEPT !.locals = IF @ = <<>> THEN @ ELSE SubSeq(@, 1, Len(@) - 1)]

\* execute: the first pass, the lookup of main, and call_function up to the
\* push of main's scope
ScopeBegin ==
    /\ pc = "new"
    /\ LET it == collect_items(Interp, ScopeItems(call_in.body)).it
       IN SetInterp([it EXCEPT !.locals = Append(@, EmptyMap)])
    /\ pc' = "main"
    /\ UNCHANGED <<result, last, pre, steps, call_vars, sem_vars, ar_vars>>

\* an error leaves execute_block of main: call_function pops a scope and
\* execute returns, Ok if the error was a return
Leave(r) ==
    /\ SetInterp(PopScope(r.it))
    /\ pc' = "done"
    /\ result' = IF r.error.err = "Return" THEN Returned(Ok(r.it, NilV)) ELSE Returned(r)
    /\ call_out' = None
    /\ UNCHANGED steps

InMain == pc = "main" /\ steps < Len(call_in.body)

NextOfMain == call_in.body[steps + 1]

InLoop(at) == pc = "for" /\ call_out.at = at

\* what the step at the present position runs: a statement, or the
\* condition of the loop
StepCode ==
    CASE InMain /\ NextOfMain.s # "For" -> Some(NextOfMain)
      [] InMain /\ NextOfMain.s = "For" -> NextOfMain.init
      [] InLoop("condition") -> NextOfMain.condition
      [] InLoop("body") /\ call_out.next <= Len(NextOfMain.body) ->
            Some(NextOfMain.body[call_out.next])
      [] InLoop("body") /\ call_out.next > Len(NextOfMain.body) -> NextOfMain.update
      [] InLoop("continue") -> NextOfMain.update
      [] OTHER -> None

\* the interpreter the step runs it on: Statement::For pushes the loop
\* scope before its init
StepInterp ==
    IF InMain /\ NextOfMain.s = "For" THEN [Interp EXCEPT !.locals = Append(@, EmptyMap)]
    ELSE Interp

StepResult ==
    IF ~StepCode.some THEN Ok(StepInterp, IF InLoop("condition") THEN BoolV(TRUE) ELSE NilV)
    ELSE Dispatch(StepInterp,
                  IF InLoop("condition") THEN "evaluate_expression" ELSE "execute_statement",
                  <<StepCode.v>>)

\* execute_block of main reaches a statement that is not a for statement
MainStatement(r) ==
    /\ InMain
    /\ NextOfMain.s # "For"
    /\ last' = StepCode
    /\ pre' = Some(Interp)
    /\ IF r.ok
       THEN /\ SetInterp(r.it)
            /\ steps' = steps + 1
            /\ call_out' = None
            /\ UNCHANGED <<pc, result>>
       ELSE Leave(r)
    /\ UNCHANGED <<call_in, sem_vars, ar_vars>>

\* Statement::For up to its loop: the push of the loop scope and the init
ForEnter(init) ==
    /\ InMain
    /\ NextOfMain.s = "For"
    /\ last' = StepCode
    /\ pre' = Some(Interp)
    /\ IF init.ok
       THEN /\ SetInterp(init.it)
            /\ pc' = "for"
            /\ call_out' = [at |-> "condition", idx |-> Len(init.it.locals) - 1, next |-> 1]
            /\ UNCHANGED <<steps, result>>
       ELSE Leave(init)
    /\ UNCHANGED <<call_in, sem_vars, ar_vars>>

\* Statement::For after its loop: the loop scope is popped and its entries
\* are inserted into the parent scope
ForExit(it) ==
    /\ IF it.locals # <<>>
       THEN LET loop_scope == it.locals[Len(it.locals)]
                rest == SubSeq(it.locals, 1, Len(it.locals) - 1)
            IN IF rest # <<>>
               THEN SetInterp([it EXCEPT !.locals =
                                  [rest EXCEPT ![Len(rest)] = MergeScope(@, loop_scope)]])
               ELSE SetInterp([it EXCEPT !.locals = rest])
       ELSE SetInterp([it EXCEPT !.locals = <<EmptyMap>>])
    /\ pc' = "main"
    /\ steps' = steps + 1
    /\ call_out' = [call_out EXCEPT !.at = "exit"]
    /\ UNCHANGED result

\* the loop goes on at `at`
ForGoesOn(it, at) ==
    /\ SetInterp(it)
    /\ call_out' = [call_out EXCEPT !.at = at, !.next = IF at = "body" THEN 1 ELSE @]
    /\ UNCHANGED <<pc, steps, result>>

\* the head of the loop: the condition, and the exit when it is false
ForCondition(cond_value) ==
    /\ InLoop("condition")
    /\ last' = None
    /\ pre' = Some(Interp)
    /\ IF ~cond_value.ok THEN Leave(cond_value)
       ELSE IF ~is_truthy(cond_value.val) THEN ForExit(cond_value.it)
       ELSE ForGoesOn(cond_value.it, "body")
    /\ UNCHANGED <<call_in, sem_vars, ar_vars>>

\* execute_block of the loop body reaches its next statement
ForBody(r) ==
    /\ InLoop("body")
    /\ call_out.next <= Len(NextOfMain.body)
    /\ last' = StepCode
    /\ pre' = Some(Interp)
    /\ IF r.ok
       THEN /\ SetInterp(r.it)
            /\ call_out' = [call_out EXCEPT !.next = @ + 1]
            /\ UNCHANGED <<pc, steps, result>>
       ELSE IF r.error.err = "Break" THEN ForExit(r.it)
       ELSE IF r.error.err = "Continue" THEN ForGoesOn(r.it, "continue")
       ELSE Leave(r)
    /\ UNCHANGED <<call_in, sem_vars, ar_vars>>

\* the update of the loop after a continue in its body
ForContinue(r) ==
    /\ InLoop("continue")
    /\ last' = StepCode
    /\ pre' = Some(Interp)
    /\ IF ~r.ok THEN Leave(r) ELSE ForGoesOn(r.it, "condition")
    /\ UNCHANGED <<call_in, sem_vars, ar_vars>>

\* execute_block of the loop body is past its last statement: the update,
\* and the check of loop_scope_index
ForUpdate(r) ==
    /\ InLoop("body")
    /\ call_out.next > Len(NextOfMain.body)
    /\ last' = StepCode
    /\ pre' = Some(Interp)
    /\ IF ~r.ok THEN Leave(r)
       ELSE IF ~(call_out.idx < Len(r.it.locals)) THEN ForExit(r.it)
       ELSE ForGoesOn(r.it, "condition")
    /\ UNCHANGED <<call_in, sem_vars, ar_vars>>

\* execute_block of main is past its last statement: call_function pops the
\* scope and execute returns Ok
MainEnd ==
    /\ pc = "main"
    /\ steps = Len(call_in.body)
    /\ SetInterp(PopScope(Interp))
    /\ pc' = "done"
    /\ result' = Returned(Ok(Interp, NilV))
    /\ last' = None
    /\ pre' = None
    /\ UNCHANGED <<steps, call_vars, sem_vars, ar_vars>>

ScopeNext ==
    \/ ScopeBegin
    \/ MainStatement(StepResult)
    \/ ForEnter(StepResult)
    \/ ForCondition(StepResult)
    \/ ForBody(StepResult)
    \/ ForContinue(StepResult)
    \/ ForUpdate(StepResult)
    \/ MainEnd

SpecScope == ScopeInit /\ [][ScopeNext]_vars

(***************************************************************************)
(* Properties of the scopes, checked under SpecScope.  `pre` is the        *)
(* interpreter before the latest step and `last` the statement it ran.     *)
(***************************************************************************)
\* the latest step ran a statement to its end and main goes on
Completed == last # None /\ last.some /\ pre # None /\ pre.some /\ pc \in {"main", "for"}

\* the latest statement is a call of a function, name(...); or
\* var r = name(...);, and the statement ran to its end: the loop around it,
\* if any, is still in its body
LastIsCall ==
    /\ Completed
    /\ \/ last.v.s = "Expression" /\ last.v.expr.e = "Call"
       \/ last.v.s = "VarDecl" /\ last.v.value.some /\ last.v.value.v.e = "Call"
    /\ call_out # None => call_out.at = "body"

LastCalls(name) ==
    /\ LastIsCall
    /\ IF last.v.s = "Expression" THEN last.v.expr.name = name ELSE last.v.value.v.name = name

Depth(it) == Len(it.locals)

\* C16: after a call of a function, however its body finished, the stack of
\* scopes is as deep as before the call and the bindings of the caller are
\* in the innermost scope: no scope of the callee stays on the stack
C16_CallKeepsScopeDepth ==
    LastIsCall
        => /\ Depth(Interp) = Depth(pre.v)
           /\ DOMAIN pre.v.locals[Depth(pre.v)] \subseteq DOMAIN locals[Depth(Interp)]

\* the same for the calls whose body does not return inside a for loop
CallWithoutLoopReturnKeepsDepth ==
    (LastIsCall /\ ~LastCalls("in_for") /\ ~LastCalls("bump_quit")
        /\ Depth(pre.v) = IF pc = "for" THEN call_out.idx + 1 ELSE 1)
        => /\ Depth(Interp) = Depth(pre.v)
           /\ DOMAIN pre.v.locals[Depth(pre.v)] \subseteq DOMAIN locals[Depth(Interp)]

\* C17: a function does not see the local variables of its caller: peek,
\* which reads a without declaring it, called where a is a local variable
\* of main, fails with variable-not-found
C17_CallerLocalsNotVisible ==
    (last = Some(CallPeek) /\ pre # None /\ pre.some
        /\ \E j \in 1..Depth(pre.v) : "a" \in DOMAIN pre.v.locals[j])
        => /\ pc = "done"
           /\ ~result.ok
           /\ result.error.err = "VariableNotFound"

\* the scopes of it that bind name
Holders(it, name) == {j \in 1..Depth(it) : name \in DOMAIN it.locals[j]}

\* C18: an assignment to a name that some scope binds changes the innermost
\* scope that binds it and adds no binding to a scope nested more deeply;
\* an assignment to a name that no scope binds creates it in the innermost
\* scope
C18_AssignmentTargetsBindingScope ==
    (Completed /\ last.v.s = "Assignment" /\ last.v.target.e = "Identifier")
        => LET name == last.v.target.name
               holders == Holders(pre.v, name)
               target == IF holders # {} THEN SetMax(holders) ELSE Depth(pre.v)
           IN /\ Depth(Interp) = Depth(pre.v)
              /\ name \in DOMAIN locals[target]
              /\ \A j \in 1..Depth(pre.v) :
                    j # target => locals[j] = pre.v.locals[j]

\* C19: a for statement runs in a child scope, the innermost one while the
\* loop runs; when the loop ends, by its condition or by a break, the
\* bindings of the child scope are copied into the parent scope, over those
\* of the same names, and the child scope is removed
C19_ForScopeMerged ==
    /\ pc = "for" => Depth(Interp) = call_out.idx + 1
    /\ (pc = "main" /\ call_out # None /\ call_out.at = "exit")
          => /\ Depth(Interp) = call_out.idx
             /\ Depth(pre.v) = call_out.idx + 1
             /\ locals[call_out.idx] = MergeScope(pre.v.locals[call_out.idx],
                                                  pre.v.locals[call_out.idx + 1])
             /\ \A j \in 1..(call_out.idx - 1) : locals[j] = pre.v.locals[j]

\* the same for the loops whose body calls no function that returns inside
\* a for loop, in a main that called none before
ForWithoutLoopReturnMerged ==
    (\A i \in 1..Len(call_in.body) :
        /\ call_in.body[i] # CallWithA("in_for")
        /\ call_in.body[i] # CallWithRefA("bump_quit")
        /\ call_in.body[i] # ForUpTo(1, <<CallWithA("in_for")>>))
        => C19_ForScopeMerged

\* C20: after name(&a), where the body of the function adds one to its
\* parameter, a holds one more than before the call: the final value of the
\* parameter is written to the variable of the caller
C20_ReferenceWrittenBack ==
    (LastIsCall /\ last.v.s = "Expression"
        /\ last.v.expr.args = <<Ref(Id("a"))>>
        /\ ~LastCalls("keep")
        /\ Bound(pre.v, "a").ok /\ Bound(pre.v, "a").val.t = "Int")
        => /\ Bound(Interp, "a").ok
           /\ Bound(Interp, "a").val = IntV(Bound(pre.v, "a").val.v + 1)

\* the same for the functions that do not return inside a for loop
ReferenceWrittenBackWithoutLoopReturn ==
    ~LastCalls("bump_quit") => C20_ReferenceWrittenBack

\* C21: after keep(&a), where the body of keep never assigns its parameter,
\* a holds the value it held before the call, same tag and same content
C21_UnassignedReferenceKeepsValue ==
    (LastCalls("keep") /\ Bound(pre.v, "a").ok)
        => /\ Bound(Interp, "a").ok
           /\ Bound(Interp, "a").val.t = Bound(pre.v, "a").val.t
           /\ Bound(Interp, "a").val = Bound(pre.v, "a").val

Signals == {"Return", "Break", "Continue"}

\* the loop of main was left, or sent to its update, by the call statement
\* that ran last in its body
LoopEndedByCall ==
    /\ Completed
    /\ last.v.s = "VarDecl" /\ last.v.value.some /\ last.v.value.v.e = "Call"
    /\ call_out # None
    /\ call_out.at \in {"exit", "continue"}

\* C22: the Return, Break and Continue signals are consumed where they
\* belong: a call yields the value its body returned, Nil when the body ran
\* to its end; no break or continue of a callee ends or restarts the body of
\* a loop of the caller; and execute returns none of the three as its error
C22_SignalsConsumed ==
    /\ (LastIsCall /\ last.v.s = "VarDecl" /\ Bound(pre.v, "a").ok
          /\ Bound(pre.v, "a").val.t = "Int")
          => /\ (LastCalls("early") \/ LastCalls("in_if") \/ LastCalls("in_for"))
                   => /\ Bound(Interp, "r").ok
                      /\ Bound(Interp, "r").val = IntV(Bound(pre.v, "a").val.v + 1)
             /\ LastCalls("fall")
                   => /\ Bound(Interp, "r").ok
                      /\ Bound(Interp, "r").val = NilV
    /\ ~LoopEndedByCall
    /\ (pc = "done" /\ result.returned /\ ~result.ok) => result.error.err \notin Signals

\* the same for the programs in which every break and continue is inside a
\* loop of its own function
SignalsConsumedInsideLoops ==
    (\A i \in 1..Len(call_in.body) :
        /\ call_in.body[i] # BreakS
        /\ call_in.body[i] # CallWithA("stop")
        /\ call_in.body[i] # CallWithA("skip")
        /\ call_in.body[i].s = "For" =>
              \A j \in 1..Len(call_in.body[i].body) :
                 /\ call_in.body[i].body[j] # CallWithA("stop")
                 /\ call_in.body[i].body[j] # CallWithA("skip"))
        => C22_SignalsConsumed

\* C23: `/` and `%` on an Int left operand and the Int right operand 0 give
\* a runtime error value, which the interpreter returns as the error of the
\* program; the interpreter does not panic
C23_IntDivisionByZeroIsRuntimeError ==
    ( /\ ar_in.op \in {"Divide", "Modulo"}
      /\ ar_in.left.t = "Int"
      /\ ar_in.right.t = "Int" /\ ar_in.right.v = 0
      /\ ar_out.applied.some )
    => /\ ~ar_out.applied.v.ok
       /\ ar_out.applied.v.error.err = "RuntimeError"

\* the same for `/` alone
IntDivideByZeroIsRuntimeError ==
    ar_in.op = "Divide" => C23_IntDivisionByZeroIsRuntimeError

(***************************************************************************)
(* Switch matching run on its own: two runtime values are at hand, and     *)
(* values_equal is applied to them, directly and by a switch statement     *)
(* whose only case is the second value.                                    *)
(***************************************************************************)
SwitchCase(value, body) == [value |-> value, body |-> body]

SwitchS(x, cases, default_case) ==
    [s |-> "Switch", expr |-> x, cases |-> cases, default_case |-> default_case]

One == IntV(1)

Two == IntV(2)

\* values of every tag the switch can meet, two or more of each tag
EqualValues ==
    <<One, Two,
      MkFloat(1, 2), MkFloat(2, 2),
      StrV(<<"a">>), StrV(<<"b">>),
      BoolV(TRUE), BoolV(FALSE),
      NilV,
      ArrayV(<<One>>), ArrayV(<<One, Two>>),
      ListV(<<>>), ListV(<<One>>),
      MapV([a |-> One]), MapV([a |-> Two]),
      StructV("P", [x |-> One]), StructV("P", [x |-> Two]), StructV("Q", [x |-> One])>>

\* switch (x) { case y { m = 1; } default { m = 2; } }
SwitchXOnY ==
    SwitchS(Id("x"),
            <<SwitchCase(Id("y"), <<Assign(Id("m"), Lit(One))>>)>>,
            Some(<<Assign(Id("m"), Lit(Two))>>))

EqualInit ==
    /\ InterpNew
    /\ SemIdle
    /\ ArithIdle
    /\ \E l \in 1..Len(EqualValues), r \in 1..Len(EqualValues) :
          call_in = [left |-> EqualValues[l], right |-> EqualValues[r]]
    /\ call_out = [equal |-> None, matched |-> None]

\* Interpreter::values_equal
ValuesEqual ==
    /\ ~call_out.equal.some
    /\ call_out' = [call_out EXCEPT !.equal = Some(values_equal(call_in.left, call_in.right))]
    /\ UNCHANGED <<call_in, interp_vars, sem_vars, ar_vars>>

\* the switch statement, in a scope that binds x and y to the two values
ExecuteSwitch ==
    /\ ~call_out.matched.some
    /\ LET it == [Interp EXCEPT !.locals = <<[x |-> call_in.left, y |-> call_in.right]>>]
           r == self_execute_statement(it, SwitchXOnY)
       IN /\ r.ok
          /\ call_out' = [call_out EXCEPT !.matched = Some(get_variable(r.it, "m").val = One)]
    /\ UNCHANGED <<call_in, interp_vars, sem_vars, ar_vars>>

EqualNext == ValuesEqual \/ ExecuteSwitch

SpecEqual == EqualInit /\ [][EqualNext]_vars

\* the two values have the same tag and the same content
SameTagAndContent ==
    /\ call_in.left.t = call_in.right.t
    /\ call_in.left = call_in.right

\* C24: values_equal is true exactly for two values of the same tag and the
\* same content, whatever the tag, and a switch takes the case of a value
\* exactly then
C24_EqualIffSameTagAndContent ==
    /\ call_out.equal.some => (call_out.equal.v <=> SameTagAndContent)
    /\ call_out.matched.some => (call_out.matched.v <=> SameTagAndContent)

\* the same for the values of the tags Int, Float, Str, Bool and Nil
ScalarsEqualIffSameTagAndContent ==
    (call_in.left.t \in {"Int", "Float", "Str", "Bool", "Nil"}
        \/ call_in.right.t \in {"Int", "Float", "Str", "Bool", "Nil"})
        => C24_EqualIffSameTagAndContent

(***************************************************************************)
(* Method calls with no explicit argument on record values, run on their   *)
(* own: main has declared a record p of the type P, which defines the      *)
(* method len, or of the type Q, which defines none, an array l and a      *)
(* record w that hold p, and calls a method on one of them.                *)
(***************************************************************************)
MaxField == 3

\* impl P { chif len(self) int { ret self.x; } }
LenOfP ==
    StructImplItem("P", <<Function("len", <<Param("self", TStruct("P"), FALSE)>>, Some(TInt),
                                   <<ReturnS(Some(Field(Id("self"), "x")))>>, FALSE)>>)

\* the literal name { x = v }
RecordLit(name, v) == StructLit(name, <<<<"x", Lit(IntV(v))>>>>)

\* chif make() name { ret name { x = v }; }
MakeFunction(name, v) ==
    FunctionItem(Function("make", <<>>, Some(TStruct(name)),
                          <<ReturnS(Some(RecordLit(name, v)))>>, FALSE))

\* var p: name = name { x = v }; var l: [name; 1] = [p]; var w: W = W { p = p };
MethodDecls(name, v) ==
    <<VarDecl("p", TStruct(name), Some(RecordLit(name, v)), TRUE),
      VarDecl("l", TArray(TStruct(name), <<1>>), Some(ArrLit(<<Id("p")>>)), TRUE),
      VarDecl("w", TStruct("W"), Some(StructLit("W", <<<<"p", Id("p")>>>>)), TRUE)>>

ReceiverKinds == {"variable", "index", "field", "call", "interpolation"}

\* the statement that calls method on the receiver of the kind
MethodStatement(kind, method) ==
    CASE kind = "variable" -> ExprS(MCall(Id("p"), method, <<>>))
      [] kind = "index" -> ExprS(MCall(IndexAccess(Id("l"), <<Lit(IntV(0))>>), method, <<>>))
      [] kind = "field" -> ExprS(MCall(Field(Id("w"), "p"), method, <<>>))
      [] kind = "call" -> ExprS(MCall(Call("make", <<>>), method, <<>>))
      [] kind = "interpolation" ->
            ConOut(Lit(StrV(<<"{", "p", ".">> \o Spelling(method) \o <<"(", ")", "}">>)))

MethodInit ==
    /\ InterpNew
    /\ SemIdle
    /\ ArithIdle
    /\ \E kind \in ReceiverKinds, method \in {"len", "out"}, name \in {"P", "Q"},
          v \in 1..MaxField :
          call_in = [kind |-> kind, method |-> method, struct_name |-> name, x |-> v]
    /\ call_out = None

\* the interpreter in the body of main after the declarations
AfterDecls ==
    LET items == <<LenOfP, MakeFunction(call_in.struct_name, call_in.x)>>
        it == collect_items(Interp, items).it
    IN self_execute_block([it EXCEPT !.locals = Append(@, EmptyMap)],
                          MethodDecls(call_in.struct_name, call_in.x)).it

MethodReturn(r) ==
    /\ call_out' = [ok |-> r.ok, err |-> IF r.ok THEN "none" ELSE r.error.err,
                    printed |-> r.it.out]
    /\ SetInterp(r.it)

\* execute_statement on a statement that is a method call, or prints one
CallMethod ==
    /\ call_out = None
    /\ MethodReturn(self_execute_statement(AfterDecls,
                                           MethodStatement(call_in.kind, call_in.method)))
    /\ UNCHANGED <<call_in, pc, result, last, pre, steps, sem_vars, ar_vars>>

MethodNext == CallMethod

SpecMethod == MethodInit /\ [][MethodNext]_vars

\* C25: a method call with no explicit argument on a record either runs the
\* method, when the type of the record defines it, or gives a runtime error
\* value; the interpreter never indexes past the end of the argument list
C25_MethodCallNeverCrashes ==
    call_out # None
        => /\ call_out.err # "Panic"
           /\ call_out.ok => (call_in.struct_name = "P" /\ call_in.method = "len")
           /\ ~call_out.ok => call_out.err = "RuntimeError"
           /\ (call_out.ok /\ call_in.kind = "interpolation")
                 => call_out.printed = <<to_string(IntV(call_in.x), hash_seed)>>

\* the same for the calls of a defined method on a named variable
MethodOnVariableRuns ==
    (call_in.kind = "variable" /\ call_in.struct_name = "P" /\ call_in.method = "len")
        => (C25_MethodCallNeverCrashes /\ (call_out # None => call_out.ok))

BuiltinNames == {"con", "http", "randi", "randf", "rands", "int", "float", "str"}

\* C26: on a fresh analyzer the definition-collection pass seeds the global
\* scope without an error, and afterwards lookup resolves every built-in
\* identifier
C26_BuiltinsSeeded ==
    Analyzed
        => /\ ~(/\ ~sem_res.ok
                /\ sem_res.error.sem_err = "SymbolAlreadyDefined"
                /\ sem_res.error.info \in BuiltinNames)
           /\ \A name \in BuiltinNames : lookup_symbol(sem, name).some

(***************************************************************************)
(* The symbol table driven on its own: on the table of a fresh analyzer    *)
(* scopes are pushed and popped, symbols defined and names read, in any    *)
(* order; or the fresh analyzer analyzes the program of                    *)
(* test_undefined_symbol_error.  call_out is the caller's own record of    *)
(* what it did: the cursors it pushed from and has not popped back to, and *)
(* the names it defined in each scope.                                     *)
(***************************************************************************)
MaxTableOps == 5

TableNames == {"x", "y"}

\* fn test_func() int { ret undefined_var; }
UndefinedSymbolProgram ==
    <<FunctionItem(Function("test_func", <<>>, Some(TInt),
                            <<ReturnS(Some(Id("undefined_var")))>>, FALSE))>>

Cursor(sa) == sa.symbol_table.current_scope

TableInit ==
    /\ InterpNew
    /\ ArithIdle
    /\ sem = SemanticAnalyzerNew
    /\ sem_prog = UndefinedSymbolProgram
    /\ sem_res = None
    /\ sem_op = "none"
    /\ sem_calls = 0
    /\ call_in = None
    /\ call_out = [opened |-> <<>>, names |-> <<{}>>, expect |-> 0, nested |-> FALSE]

TableCanStep == sem_calls < MaxTableOps /\ sem_op # "analyze"

TableReturn(op, r, name) ==
    /\ sem' = r.it
    /\ sem_res' = WithIt(r, <<>>)
    /\ sem_op' = op
    /\ sem_calls' = sem_calls + 1
    /\ call_in' = name
    /\ UNCHANGED <<sem_prog, interp_vars, ar_vars>>

\* symbol_table.push_scope()
PushScope ==
    /\ TableCanStep
    /\ TableReturn("push_scope", Ok(push_scope(sem), <<>>), None)
    /\ call_out' = [call_out EXCEPT !.opened = Append(@, Cursor(sem)),
                                    !.names = Append(@, {})]

TablePopped(r) ==
    /\ TableReturn("pop_scope", r, None)
    /\ call_out' = IF r.ok /\ call_out.opened # <<>>
                   THEN [call_out EXCEPT
                            !.opened = SubSeq(@, 1, Len(@) - 1),
                            !.expect = call_out.opened[Len(call_out.opened)],
                            !.nested = TRUE]
                   ELSE [call_out EXCEPT !.expect = 0, !.nested = call_out.opened # <<>>]

\* symbol_table.pop_scope()
PopScopeOfTable ==
    /\ TableCanStep
    /\ TablePopped(pop_scope(sem))

TableDefined(r, name) ==
    /\ TableReturn("define_symbol", r, Some(name))
    /\ call_out' = IF r.ok
                   THEN [call_out EXCEPT !.names[Cursor(sem) + 1] = @ \cup {name}]
                   ELSE call_out

\* symbol_table.define_symbol(symbol) for a variable of the name
DefineSymbol ==
    /\ TableCanStep
    /\ \E name \in TableNames :
          TableDefined(define_symbol(sem, Symbol(name, VariableSym(TInt), TRUE)), name)

\* analyze_expression on the identifier: the read of a name
ReadName ==
    /\ TableCanStep
    /\ \E name \in TableNames :
          TableReturn("read", analyze_expression(sem, Id(name)), Some(name))
    /\ UNCHANGED call_out

\* analyze on the fresh analyzer
AnalyzeUndefined ==
    /\ sem_calls = 0
    /\ TableReturn("analyze", analyze(sem, sem_prog), None)
    /\ UNCHANGED call_out

TableNext ==
    \/ PushScope
    \/ PopScopeOfTable
    \/ DefineSymbol
    \/ ReadName
    \/ AnalyzeUndefined

SpecTable == TableInit /\ [][TableNext]_vars

\* the scopes from the cursor up to the global scope, by the caller's record
Chain == {Cursor(sem)} \cup {call_out.opened[k] : k \in 1..Len(call_out.opened)}

OnChain(name) == \E i \in Chain : name \in call_out.names[i + 1]

\* the discipline of the table under push_scope, pop_scope, define_symbol
\* and reads of names
TableDiscipline ==
    /\ sem_op = "push_scope"
          => /\ Cursor(sem) = Len(sem.symbol_table.scopes) - 1
             /\ sem.symbol_table.scopes[Cursor(sem) + 1].parent
                   = Some(call_out.opened[Len(call_out.opened)])
    /\ sem_op = "pop_scope"
          => /\ Cursor(sem) = call_out.expect
             /\ sem_res.ok <=> call_out.nested
             /\ ~sem_res.ok => sem_res.error.sem_err = "InvalidOperation"
    /\ \A name \in TableNames : lookup_symbol(sem, name).some <=> OnChain(name)
    /\ sem_op = "read"
          => /\ sem_res.ok <=> OnChain(call_in.v)
             /\ ~sem_res.ok => sem_res.error.sem_err = "UndefinedSymbol"

\* C27: push_scope opens a scope under the cursor and moves the cursor to
\* it; pop_scope moves the cursor back to the parent and is an error at the
\* global scope; lookup finds exactly the names of the scopes from the
\* cursor up; and the analysis of a program that reads a name defined in no
\* scope fails with the undefined-symbol error
C27_ScopeDiscipline ==
    IF sem_op = "analyze"
    THEN ~sem_res.ok /\ sem_res.error.sem_err = "UndefinedSymbol"
    ELSE TableDiscipline

\* the same for the operations on the table alone
TableDisciplineHolds == sem_op # "analyze" => C27_ScopeDiscipline

(***************************************************************************)
(* Import resolution step by step: the program is up to MaxImports import  *)
(* items and an empty main; x.rono imports y and y.rono imports x, lib     *)
(* imports nothing and there is no file z.rono.  The first pass of execute *)
(* takes the items one at a time, then main is called; the analyzer        *)
(* analyzes the same program.                                              *)
(***************************************************************************)
MaxImports == 2

CyclePaths == <<<<"x">>, <<"y">>, <<"l", "i", "b">>, <<"z">>>>

CycleInit ==
    /\ InterpNew
    /\ ArithIdle
    /\ sem = SemanticAnalyzerNew
    /\ sem_res = None
    /\ sem_op = "none"
    /\ sem_calls = 0
    /\ \E paths \in UNION {[1..n -> 1..Len(CyclePaths)] : n \in 1..MaxImports},
          alias \in {None, Some("f")} :
          /\ call_in = [imports |-> [i \in 1..Len(paths) |->
                                        [path |-> CyclePaths[paths[i]],
                                         alias |-> IF i = 1 THEN alias ELSE None]]]
          /\ sem_prog = [i \in 1..Len(paths) |->
                            ImportItem(call_in.imports[i].path, call_in.imports[i].alias)]
                        \o <<FunctionItem(MainFunction)>>
    /\ call_out = None

\* execute returns r
ExecuteReturns(r) ==
    /\ SetInterp(r.it)
    /\ result' = Returned(r)
    /\ pc' = "done"
    /\ UNCHANGED steps

Collected(r) ==
    IF r.ok
    THEN /\ SetInterp(r.it)
         /\ pc' = "collect"
         /\ steps' = steps + 1
         /\ UNCHANGED result
    ELSE ExecuteReturns(r)

\* the first pass of execute reaches its next item
CollectItem ==
    /\ pc \in {"new", "collect"}
    /\ steps < Len(sem_prog)
    /\ \E r \in {collect_items(Interp, <<sem_prog[steps + 1]>>)} : Collected(r)
    /\ UNCHANGED <<last, pre, sem_vars, ar_vars, call_vars>>

\* the first pass is over: main is looked up and called
CallMain ==
    /\ pc \in {"new", "collect"}
    /\ steps = Len(sem_prog)
    /\ \E r \in {execute(Interp, <<>>)} : ExecuteReturns(r)
    /\ UNCHANGED <<last, pre, sem_vars, ar_vars, call_vars>>

\* analyze on the fresh analyzer
AnalyzeImports ==
    /\ sem_calls = 0
    /\ \E r \in {analyze(sem, sem_prog)} : SemReturn("analyze", r)

CycleNext ==
    \/ CollectItem
    \/ CallMain
    \/ AnalyzeImports

SpecCycle == CycleInit /\ [][CycleNext]_vars

\* a step that can be taken is taken: the caller goes on to the next item,
\* to main and to the analysis as soon as the step before has returned
SpecCycleLive == SpecCycle /\ WF_vars(CycleNext)

\* the program imports a module of the cycle x -> y -> x
Cyclic == \E i \in 1..Len(call_in.imports) : call_in.imports[i].path \in {<<"x">>, <<"y">>}

\* every file the program imports is there
AllFound ==
    \A i \in 1..Len(call_in.imports) : FilePath(call_in.imports[i].path) \in DOMAIN Files

\* the statement of C28 as it stands: on a cyclic import graph import
\* resolution never returns, in the interpreter and in the analyzer
C28_CyclicImportNeverReturns ==
    Cyclic => (pc # "done" /\ sem_op # "analyze")

\* what execute leaves when it has returned: the modules the program
\* imports, under their names, each with the function bar of its file, and
\* no module for an import that only an imported file makes
DirectModulesOnly ==
    (pc = "done" /\ Cyclic)
        => /\ result.ok <=> AllFound
           /\ AllFound =>
                 /\ DOMAIN modules = {ModuleName(call_in.imports[i]) :
                                         i \in 1..Len(call_in.imports)}
                 /\ \A m \in DOMAIN modules : DOMAIN modules[m].functions = {"bar"}
                 /\ DOMAIN functions = {"bar", "main"}

\* C28: on a cyclic import graph import resolution returns: the interpreter
\* reads the files the program imports, ignores the import items in them,
\* and goes on to main; analyze returns too
C28_CyclicImportReturns ==
    /\ []DirectModulesOnly
    /\ (Cyclic /\ pc = "new") ~> (pc = "done")
    /\ (Cyclic /\ sem_calls = 0) ~> (sem_op = "analyze")

\* both modules of the cycle are imported and execute has returned Ok
C28_Witness ==
    /\ pc = "done"
    /\ result.ok
    /\ Len(call_in.imports) = 2
    /\ {call_in.imports[i].path : i \in 1..2} = {<<"x">>, <<"y">>}

(***************************************************************************)
(* Struct layout of the IR generator.  Offsets and sizes are u32; every    *)
(* number of the model is far below 2^31, so no addition wraps.            *)
(***************************************************************************)
StructField(name, field_type) == [name |-> name, field_type |-> field_type]

StructDef(name, fields) == [name |-> name, fields |-> fields]

\* a & b on unsigned integers
RECURSIVE BitAnd(_, _)
BitAnd(a, b) ==
    IF a = 0 \/ b = 0 THEN 0
    ELSE (a % 2) * (b % 2) + 2 * BitAnd(a \div 2, b \div 2)

\* get_type_size with the size of a pointer for a nested struct
GetTypeSizeByReference(chif_type) ==
    IF chif_type.k \in {"Int", "Float", "Str", "Pointer", "Struct"} THEN Ok(<<>>, 8)
    ELSE IF chif_type.k = "Bool" THEN Ok(<<>>, 1)
    ELSE IF chif_type.k = "Nil" THEN Ok(<<>>, 0)
    ELSE Err(<<>>, IRError("UnsupportedFeature", "Type size calculation not implemented"))

get_type_size(chif_type) ==
    CASE chif_type.k = "Int" -> Ok(<<>>, 8)
      [] chif_type.k = "Float" -> Ok(<<>>, 8)
      [] chif_type.k = "Bool" -> Ok(<<>>, 1)
      [] chif_type.k = "Str" -> Ok(<<>>, 8)
      [] chif_type.k = "Nil" -> Ok(<<>>, 0)
      [] chif_type.k = "Pointer" -> Ok(<<>>, 8)
      [] chif_type.k = "Struct" -> Ok(<<>>, 16)
      [] OTHER -> Err(<<>>, IRError("UnsupportedFeature", "Type size calculation not implemented"))

get_type_alignment(chif_type) ==
    CASE chif_type.k = "Int" -> Ok(<<>>, 8)
      [] chif_type.k = "Float" -> Ok(<<>>, 8)
      [] chif_type.k = "Bool" -> Ok(<<>>, 1)
      [] chif_type.k = "Str" -> Ok(<<>>, 8)
      [] chif_type.k = "Nil" -> Ok(<<>>, 1)
      [] chif_type.k = "Pointer" -> Ok(<<>>, 8)
      [] chif_type.k = "Struct" -> Ok(<<>>, 8)
      [] OTHER -> Err(<<>>, IRError("UnsupportedFeature", "Type alignment calculation not implemented"))

\* (value + alignment - 1) & !(alignment - 1)
align_to(value, alignment) ==
    LET sum == value + alignment - 1
    IN sum - BitAnd(sum, alignment - 1)

StructFieldLayout(field, offset, size) ==
    [name |-> field.name, field_type |-> field.field_type, offset |-> offset, size |-> size]

\* one turn of the loop of process_struct_definition
LayoutField(acc, field, field_size, field_alignment) ==
    LET current_offset == align_to(acc.current_offset, field_alignment.val)
    IN [fields |-> Append(acc.fields, StructFieldLayout(field, current_offset, field_size.val)),
        current_offset |-> current_offset + field_size.val,
        max_alignment |-> IF field_alignment.val > acc.max_alignment
                          THEN field_alignment.val ELSE acc.max_alignment]

\* the loop of process_struct_definition from field i on
RECURSIVE layout_fields(_, _, _)
layout_fields(fields, i, acc) ==
    IF i > Len(fields) THEN Ok(<<>>, acc)
    ELSE LET field_size == get_type_size(fields[i].field_type)
             field_alignment == get_type_alignment(fields[i].field_type)
         IN IF ~field_size.ok THEN field_size
            ELSE IF ~field_alignment.ok THEN field_alignment
            ELSE layout_fields(fields, i + 1,
                               LayoutField(acc, fields[i], field_size, field_alignment))

\* IRGenerator::process_struct_definition on the generator's map structs
process_struct_definition(structs, struct_def) ==
    LET laid == layout_fields(struct_def.fields, 1,
                              [fields |-> <<>>, current_offset |-> 0, max_alignment |-> 1])
    IN IF ~laid.ok THEN Err(structs, laid.error)
       ELSE Ok(MapInsert(structs, struct_def.name,
                         [name |-> struct_def.name,
                          fields |-> laid.val.fields,
                          size |-> align_to(laid.val.current_offset, laid.val.max_alignment),
                          alignment |-> laid.val.max_alignment]),
               NilV)

(***************************************************************************)
(* The layout of one struct definition: up to MaxLayoutFields fields, the  *)
(* first of FieldNames, each of a type of FieldTypes, handed to a          *)
(* generator that has no struct yet.                                       *)
(***************************************************************************)
MaxLayoutFields == 3

FieldNames == <<"x", "y", "z", "width", "height">>

FieldTypes ==
    <<TInt, TFloat, TBool, TStr, TPointer(TInt), TStruct("P"), TNil, TArray(TInt, <<2>>)>>

LayoutInit ==
    /\ InterpNew
    /\ SemIdle
    /\ ArithIdle
    /\ \E types \in UNION {[1..n -> 1..Len(FieldTypes)] : n \in 0..MaxLayoutFields} :
          call_in = [struct_def |->
                        StructDef("S", [i \in 1..Len(types) |->
                                           StructField(FieldNames[i], FieldTypes[types[i]])])]
    /\ call_out = None

\* the third pass of generate reaches the struct definition
ProcessStructDefinition ==
    /\ call_out = None
    /\ LET r == process_struct_definition(EmptyMap, call_in.struct_def)
       IN call_out' = [ok |-> r.ok, structs |-> r.it]
    /\ UNCHANGED <<call_in, interp_vars, sem_vars, ar_vars>>

LayoutNext == ProcessStructDefinition

SpecLayout == LayoutInit /\ [][LayoutNext]_vars

\* the types the statement of the layout is about
LayoutTypes == {"Int", "Float", "Bool", "Str", "Pointer", "Struct"}

StatedSize(chif_type) == IF chif_type.k = "Bool" THEN 1 ELSE 8

StatedAlignment(chif_type) == IF chif_type.k = "Bool" THEN 1 ELSE 8

RoundUp(n, alignment) == ((n + alignment - 1) \div alignment) * alignment

\* the layout of S follows the rules, under the given size of a nested struct
LayoutFollows(struct_size) ==
    LET def == call_in.struct_def.fields
        Size(t) == IF t.k = "Struct" THEN struct_size
                   ELSE IF t.k = "Nil" THEN 0 ELSE StatedSize(t)
        Alignment(t) == IF t.k = "Nil" THEN 1 ELSE StatedAlignment(t)
        n == Len(def)
    IN /\ call_out.ok
       /\ DOMAIN call_out.structs = {"S"}
       /\ LET layout == call_out.structs["S"]
          IN /\ Len(layout.fields) = n
             /\ \A i \in 1..n :
                   /\ layout.fields[i].name = def[i].name
                   /\ layout.fields[i].field_type = def[i].field_type
                   /\ layout.fields[i].size = Size(def[i].field_type)
                   /\ layout.fields[i].offset % Alignment(def[i].field_type) = 0
                   /\ i > 1 => layout.fields[i].offset
                                  >= layout.fields[i - 1].offset + Size(def[i - 1].field_type)
             /\ n > 0 =>
                   /\ layout.alignment = SetMax({Alignment(def[i].field_type) : i \in 1..n})
                   /\ layout.size = RoundUp(layout.fields[n].offset + Size(def[n].field_type),
                                            layout.alignment)

OnlyLayoutTypes ==
    \A i \in 1..Len(call_in.struct_def.fields) :
        call_in.struct_def.fields[i].field_type.k \in LayoutTypes

LayoutWithPlaceholderSize ==
    (call_out # None /\ call_out.ok) => LayoutFollows(16)

\* a field of another type is an error and no layout is recorded
LayoutOfOtherTypeFails ==
    call_out # None =>
        /\ call_out.ok <=> \A i \in 1..Len(call_in.struct_def.fields) :
                              call_in.struct_def.fields[i].field_type.k \in LayoutTypes \cup {"Nil"}
        /\ ~call_out.ok => call_out.structs = EmptyMap

(***************************************************************************)
(* A struct built and read in compiled code: the definition of S is laid   *)
(* out, `var s: S = S{...}` is generated with the initializers in some     *)
(* order, then `s.f`.  The fields are Int but for at most one Bool; field  *)
(* number i is initialized with 10 + i, or with true.                      *)
(***************************************************************************)
MaxInitializers == 3

\* the sequences of n different elements of S
Arrangements(S, n) ==
    {q \in [1..n -> S] : \A i, j \in 1..n : q[i] = q[j] => i = j}

FieldValue(i, bool_at) == IF i = bool_at THEN BoolV(TRUE) ELSE IntV(10 + i)

StructInit ==
    /\ InterpNew
    /\ SemIdle
    /\ ArithIdle
    /\ \E n \in 1..MaxInitializers :
          \E names \in Arrangements({FieldNames[i] : i \in 1..Len(FieldNames)}, n),
             order \in Arrangements(1..n, n),
             bool_at \in 0..1, f \in 1..n, stale \in {0, 256} :
             call_in = [struct_def |->
                           StructDef("S", [i \in 1..n |->
                                              StructField(names[i],
                                                          IF i = bool_at THEN TBool ELSE TInt)]),
                        literal |-> StructLit("S", [i \in 1..n |->
                                                       <<names[order[i]],
                                                         Lit(FieldValue(order[i], bool_at))>>]),
                        field |-> f,
                        values |-> [i \in 1..n |-> FieldValue(i, bool_at)],
                        stale |-> stale]
    /\ call_out = None

\* the third pass of generate lays out S
LayOutStruct ==
    /\ call_out = None
    /\ LET r == process_struct_definition(EmptyMap, call_in.struct_def)
       IN call_out' = [stage |-> "laid", ok |-> r.ok, structs |-> r.it,
                       g |-> [BuilderNew EXCEPT !.stale = call_in.stale],
                       loaded |-> None]
    /\ UNCHANGED <<call_in, interp_vars, sem_vars, ar_vars>>

\* `var s: S = S{...}` is generated
GenerateStructInstantiation ==
    /\ call_out # None
    /\ call_out.stage = "laid"
    /\ \E r \in {generate_statement_static(call_out.g,
                                           VarDecl("s", TStruct("S"), Some(call_in.literal), FALSE),
                                           FALSE)} :
          call_out' = [call_out EXCEPT !.stage = "built", !.ok = r.ok, !.g = r.it]
    /\ UNCHANGED <<call_in, interp_vars, sem_vars, ar_vars>>

\* `s.f` is generated
GenerateFieldAccess ==
    /\ call_out # None
    /\ call_out.stage = "built"
    /\ call_out.ok
    /\ \E r \in {generate_expression_static(
                    call_out.g,
                    Field(Id("s"), call_in.struct_def.fields[call_in.field].name))} :
          call_out' = [call_out EXCEPT !.stage = "read", !.ok = r.ok, !.g = r.it,
                                       !.loaded = IF r.ok THEN Some(r.val) ELSE None]
    /\ UNCHANGED <<call_in, interp_vars, sem_vars, ar_vars>>

StructNext ==
    \/ LayOutStruct
    \/ GenerateStructInstantiation
    \/ GenerateFieldAccess

SpecStruct == StructInit /\ [][StructNext]_vars

\* the value of the literal as the compiled code holds it
Compiled(value) ==
    IF value.t = "Bool" THEN IRValue("I8", IF value.v THEN 1 ELSE 0)
    ELSE IRValue("I64", value.v)

\* every initializer is in memory at the layout offset of its field
StoredAtLayoutOffsets ==
    LET layout == call_out.structs["S"]
        struct_ptr == call_out.g.variables["s"]
    IN \A i \in 1..Len(layout.fields) :
          /\ struct_ptr.val + layout.fields[i].offset \in DOMAIN call_out.g.memory
          /\ call_out.g.memory[struct_ptr.val + layout.fields[i].offset]
                = Compiled(call_in.values[i])

\* the access is generated and loads the value of the initializer of its field
LoadsInitializer ==
    /\ call_out.ok
    /\ call_out.loaded = Some(Compiled(call_in.values[call_in.field]))

\* C30: the struct instantiation stores each initializer at the layout
\* offset of the field it names, and the field access loads from the base
\* address plus the layout offset of its field: for every struct definition,
\* every order of the initializers and every field f, reading f of the
\* struct built by the literal yields the initializer of f
C30_StructRoundTrip ==
    (call_out # None /\ call_out.stage # "laid")
        => /\ call_out.ok
           /\ StoredAtLayoutOffsets
           /\ call_out.stage = "read" => LoadsInitializer

\* the initializer number i is stored at offset 8 * (i - 1), whatever field
\* it names; x and width are read at offset 0, y and height at offset 8, and
\* the access to a field of another name is an error
StoredInLiteralOrder ==
    (call_out # None /\ call_out.stage # "laid")
        => LET fields == call_in.literal.fields
               struct_ptr == call_out.g.variables["s"]
               name == call_in.struct_def.fields[call_in.field].name
               at == IF name \in {"x", "width"} THEN 1 ELSE 2
           IN /\ call_out.stage = "built" => call_out.ok
              /\ DOMAIN call_out.g.memory
                    = {struct_ptr.val + 8 * (i - 1) : i \in 1..Len(fields)}
              /\ \A i \in 1..Len(fields) :
                    call_out.g.memory[struct_ptr.val + 8 * (i - 1)]
                       = generate_literal(BuilderNew, fields[i][2].value).val
              /\ call_out.stage = "read" =>
                    /\ call_out.ok <=> name \in {"x", "y", "width", "height"}
                    /\ (call_out.ok /\ at <= Len(fields) /\ fields[at][2].value.t = "Int")
                          => call_out.loaded = Some(Compiled(fields[at][2].value))

====
